---- MODULE Spec2Model ----
(***************************************************************************)
(* Netplay core of RetroArch (network/netplay/netplay.c): the command      *)
(* dispatcher netplay_get_cmd, netplay_poll_net_input, netplay_hangup,     *)
(* netplay_update_unread_ptr and the transmit helpers, driven by the       *)
(* per-frame host loop.  The frame ring helpers (delta_frame_ready,        *)
(* NEXT_PTR/PREV_PTR), the handshake and the pre/post frame entry points   *)
(* live outside netplay.c and are taken from the written specification.    *)
(***************************************************************************)
EXTENDS Integers, Sequences, FiniteSets, TLC

(* ------------------------------ bounds -------------------------------- *)
\* delay_frames argument of netplay_new
delay_frames == 1
\* number of player slots (MAX_USERS)
MAX_USERS == 2
\* size of the server's connection table
MaxConns == 2
\* frames the host loop is followed for
MaxFrame == 2
\* distinct controller values a peer or the local pad produces
MaxInput == 1
\* waits a paused session is followed for beyond MAX_RETRIES
MaxExtraWaits == 1
\* loop rounds of netplay_poll_net_input without a command that the session
\* is followed for outside the stall specification
MaxPolls == 2
\* commands the session is followed for
MaxCmds == 3
\* commands a session of players joining and leaving is followed for
MaxJoinCmds == 5
\* commands a session with a pausing peer is followed for
MaxPauseCmds == 5
\* calls of netplay_simulate_input a ring is followed for
MaxSims == 2
\* calls of netplay_send_cur_input a session is followed for
MaxSends == 2

(* ------------------------- program constants -------------------------- *)
MAX_RETRIES == 16
WORDS_PER_INPUT == 3
WORDS_PER_FRAME == WORDS_PER_INPUT + 2
NETPLAY_CMD_MODE_BIT_PLAYING == 131072
NETPLAY_CMD_MODE_BIT_YOU == 65536
\* serialized state size reported by the core, and the scratch buffer of twice that
state_size == 2
zbuffer_size == state_size * 2

\* connection modes, ordered as enum rarch_netplay_connection_mode
ModeRank(m) ==
  CASE m = "NONE" -> 0
    [] m = "INIT" -> 1
    [] m = "PRE_NICK" -> 2
    [] m = "PRE_PASSWORD" -> 3
    [] m = "PRE_SYNC" -> 4
    [] m = "SPECTATING" -> 5
    [] m = "PLAYING" -> 6

\* mode >= NETPLAY_CONNECTION_CONNECTED
IsConnected(m) == ModeRank(m) >= ModeRank("SPECTATING")

buffer_size == delay_frames * 2 + 1
Slots == 0 .. (buffer_size - 1)
Players == 0 .. (MAX_USERS - 1)
Conns == 0 .. (MaxConns - 1)

NEXT_PTR(x) == (x + 1) % buffer_size
PREV_PTR(x) == (x + buffer_size - 1) % buffer_size

\* a controller state: WORDS_PER_INPUT words
InputOf(v) == <<v, 0, 0>>
ZeroInput == InputOf(0)
InputVals == { InputOf(v) : v \in 0 .. MaxInput }
\* what the local pad is held at
LocalInput == InputOf(MaxInput)

\* calloc'ed struct delta_frame; state is the saved state of the core: "none"
\* before any is saved, "saved" once the core has serialized into it,
\* "loaded" once a LOAD_SAVESTATE was inflated into it
EmptyFrame ==
  [ used |-> FALSE, frame |-> 0,
    have_real |-> [p \in Players |-> FALSE],
    real_input_state |-> [p \in Players |-> ZeroInput],
    self_state |-> ZeroInput,
    have_local |-> FALSE, crc |-> 0,
    state |-> "none",
    simulated_input_state |-> [p \in Players |-> ZeroInput] ]

\* calloc'ed struct netplay_connection
EmptyConnection ==
  [ active |-> FALSE, mode |-> "NONE", player |-> 0, paused |-> FALSE ]

(* --------------------------- wire words ------------------------------- *)
BitSet(word, bit) == (word \div bit) % 2 = 1
\* the player word of an INPUT: bit 31 is NETPLAY_CMD_INPUT_BIT_SERVER, kept
\* apart from the low 31 bits
InputWord(player, server) == [server |-> server, low |-> player]
\* word & ~NETPLAY_CMD_INPUT_BIT_SERVER
InputWordPlayer(word) == word.low
\* word & NETPLAY_CMD_INPUT_BIT_SERVER
InputWordServer(word) == word.server
\* connection->player == word, as unsigned integers
PlayerIsWord(player, word) == ~word.server /\ word.low = player
ModeWord(playing, you, player) ==
  player + (IF playing THEN NETPLAY_CMD_MODE_BIT_PLAYING ELSE 0)
         + (IF you THEN NETPLAY_CMD_MODE_BIT_YOU ELSE 0)
ModeWordPlayer(word) == word % 65536

VARIABLES
  is_server, self_mode, self_player, connected_players, connections,
  buffer, self_ptr, self_frame_count, other_ptr, other_frame_count,
  unread_ptr, unread_frame_count, server_ptr, server_frame_count,
  read_ptr, read_frame_count, force_rewind, remote_paused, timeout_cnt,
  flip, flip_frame, savestate_request_outstanding, force_send_savestate,
  phase, poll_i, block, had_input, ret, sent, got, ev, waits, acc_next, ncmds,
  peer

vars ==
  << is_server, self_mode, self_player, connected_players, connections,
     buffer, self_ptr, self_frame_count, other_ptr, other_frame_count,
     unread_ptr, unread_frame_count, server_ptr, server_frame_count,
     read_ptr, read_frame_count, force_rewind, remote_paused, timeout_cnt,
     flip, flip_frame, savestate_request_outstanding, force_send_savestate,
     phase, poll_i, block, had_input, ret, sent, got, ev, waits, acc_next, ncmds,
     peer >>

\* the session as one record, so that the handlers compose as the C calls do
Cur ==
  [ is_server |-> is_server, self_mode |-> self_mode, self_player |-> self_player,
    connected_players |-> connected_players, connections |-> connections,
    buffer |-> buffer, self_ptr |-> self_ptr, self_frame_count |-> self_frame_count,
    other_ptr |-> other_ptr, other_frame_count |-> other_frame_count,
    unread_ptr |-> unread_ptr, unread_frame_count |-> unread_frame_count,
    server_ptr |-> server_ptr, server_frame_count |-> server_frame_count,
    read_ptr |-> read_ptr, read_frame_count |-> read_frame_count,
    force_rewind |-> force_rewind, remote_paused |-> remote_paused,
    flip |-> flip, flip_frame |-> flip_frame,
    savestate_request_outstanding |-> savestate_request_outstanding,
    force_send_savestate |-> force_send_savestate,
    timeout_cnt |-> timeout_cnt, had_input |-> had_input, sent |-> <<>>,
    local_paused |-> FALSE,
    ok |-> TRUE, hung |-> FALSE, got |-> <<>>, fail |-> {}, ser_ok |-> TRUE,
    peer |-> peer ]

\* the session at the start of a step in which the sockets of `fail` refuse
\* data and the core can (ser_ok) or cannot serialize
Env(fail, ser_ok) == [Cur EXCEPT !.fail = fail, !.ser_ok = ser_ok]

\* a command as it sits in a receive buffer (see netplay_get_cmd below)
M(cmd, size, a, b, state, avail) ==
  [cmd |-> cmd, cmd_size |-> size, a |-> a, b |-> b, state |-> state, avail |-> avail]

\* a command that was sent, as it arrives at the far end of the connection:
\* the header with the payload size in bytes, the first two payload words, and
\* the input words of an INPUT
Wire(msg) ==
  LET payload == msg.payload IN
  M(msg.cmd, 4 * Len(payload),
    IF Len(payload) >= 1 THEN payload[1] ELSE 0,
    IF Len(payload) >= 2 THEN payload[2] ELSE InputWord(0, FALSE),
    IF Len(payload) = WORDS_PER_FRAME THEN SubSeq(payload, 3, WORDS_PER_FRAME)
    ELSE ZeroInput,
    "full")

RECURSIVE WireAll(_, _)
\* the commands of `msgs` sent on connection c, in the order they were sent
WireAll(msgs, c) ==
  IF msgs = <<>> THEN <<>>
  ELSE (IF Head(msgs).to = c THEN << Wire(Head(msgs)) >> ELSE <<>>)
       \o WireAll(Tail(msgs), c)

\* the far end of the server's first connection once the step of session n
\* is done: what n sent on it has joined the commands on their way there
FarEnd(n) ==
  IF n.peer.attached THEN [n.peer EXCEPT !.s2c = @ \o WireAll(n.sent, 0)]
  ELSE n.peer

Commit(n) ==
  /\ peer' = FarEnd(n)
  /\ is_server' = n.is_server
  /\ self_mode' = n.self_mode
  /\ self_player' = n.self_player
  /\ connected_players' = n.connected_players
  /\ connections' = n.connections
  /\ buffer' = n.buffer
  /\ self_ptr' = n.self_ptr
  /\ self_frame_count' = n.self_frame_count
  /\ other_ptr' = n.other_ptr
  /\ other_frame_count' = n.other_frame_count
  /\ unread_ptr' = n.unread_ptr
  /\ unread_frame_count' = n.unread_frame_count
  /\ server_ptr' = n.server_ptr
  /\ server_frame_count' = n.server_frame_count
  /\ read_ptr' = n.read_ptr
  /\ read_frame_count' = n.read_frame_count
  /\ force_rewind' = n.force_rewind
  /\ remote_paused' = n.remote_paused
  /\ flip' = n.flip
  /\ flip_frame' = n.flip_frame
  /\ savestate_request_outstanding' = n.savestate_request_outstanding
  /\ force_send_savestate' = n.force_send_savestate
  /\ timeout_cnt' = n.timeout_cnt
  /\ had_input' = n.had_input
  /\ sent' = n.sent
  /\ got' = n.got

(* ------------------------ transmit helpers ---------------------------- *)
Msg(to, cmd, payload) == [to |-> to, cmd |-> cmd, payload |-> payload]

\* netplay_send on connection c: the bytes are handed to the socket buffer,
\* which takes them unless the socket is failing
Queue(n, c, cmd, payload) == [n EXCEPT !.sent = Append(@, Msg(c, cmd, payload))]
SendOk(n, c) == c \notin n.fail

ConnCount(n) == Cardinality(DOMAIN n.connections)

RECURSIVE netplay_hangup(_, _)
RECURSIVE SendAllFrom(_, _, _, _, _)

\* the loop of netplay_send_raw_cmd_all from connection i on
SendAllFrom(n, i, except, cmd, payload) ==
  IF i >= ConnCount(n) THEN n
  ELSE
    LET cn == n.connections[i]
        n1 == IF i # except /\ cn.active /\ IsConnected(cn.mode)
              THEN IF SendOk(n, i)
                   THEN Queue(n, i, cmd, payload)
                   ELSE netplay_hangup(Queue(n, i, cmd, payload), i)
              ELSE n
    IN SendAllFrom(n1, i + 1, except, cmd, payload)

netplay_send_raw_cmd_all(n, except, cmd, payload) ==
  SendAllFrom(n, 0, except, cmd, payload)

\* a hangup that closes the connection and leaves its player connected
netplay_hangup_keep(n, c) ==
  IF ~n.connections[c].active THEN n
  ELSE [n EXCEPT !.connections[c].active = FALSE]

netplay_hangup(n, c) ==
  IF ~n.connections[c].active THEN n
  ELSE
    LET n1 == [n EXCEPT !.connections[c].active = FALSE] IN
    IF ~n1.is_server
    THEN [n1 EXCEPT !.self_mode = "NONE", !.connected_players = {}]
    ELSE IF n1.connections[c].mode = "PLAYING"
         THEN LET pl == n1.connections[c].player
                  n2 == [n1 EXCEPT !.connected_players = @ \ {pl}]
              IN netplay_send_raw_cmd_all(n2, c, "MODE",
                   <<n2.read_frame_count[pl], ModeWord(FALSE, FALSE, pl)>>)
         ELSE n1

\* netplay_send_raw_cmd: .ok is the return value
netplay_send_raw_cmd(n, c, cmd, payload) ==
  [Queue(n, c, cmd, payload) EXCEPT !.ok = SendOk(n, c)]

\* a NAK that forgets to report the failure
netplay_cmd_nak_true(n, c) ==
  [netplay_send_raw_cmd(n, c, "NAK", <<>>) EXCEPT !.ok = TRUE]

netplay_cmd_nak(n, c) ==
  [netplay_send_raw_cmd(n, c, "NAK", <<>>) EXCEPT !.ok = FALSE]

RECURSIVE SendInputFrom(_, _, _, _, _)
\* the broadcast loop of send_input_frame from connection i on
SendInputFrom(n, i, except, player, payload) ==
  IF i >= ConnCount(n) THEN n
  ELSE
    LET cn == n.connections[i]
        n1 == IF i # except /\ cn.active /\ IsConnected(cn.mode)
                 /\ (cn.mode # "PLAYING" \/ ~PlayerIsWord(cn.player, player))
              THEN IF SendOk(n, i)
                   THEN Queue(n, i, "INPUT", payload)
                   ELSE netplay_hangup(Queue(n, i, "INPUT", payload), i)
              ELSE n
    IN SendInputFrom(n1, i + 1, except, player, payload)

\* send_input_frame; only/except are connection indices, -1 for NULL; player
\* is the player word as sent (flags included)
send_input_frame(n, only, except, frame, player, state) ==
  LET payload == <<frame, player>> \o state IN
  IF only # -1
  THEN IF SendOk(n, only)
       THEN [Queue(n, only, "INPUT", payload) EXCEPT !.ok = TRUE]
       ELSE [netplay_hangup(Queue(n, only, "INPUT", payload), only) EXCEPT !.ok = FALSE]
  ELSE [SendInputFrom(n, 0, except, player, payload) EXCEPT !.ok = TRUE]

\* no player passed over
CurInputSkips_never(cn, player) == FALSE

\* the player the loop of netplay_send_cur_input passes over: the one the
\* connection itself plays
CurInputSkips(cn, player) == cn.mode = "PLAYING" /\ cn.player = player

RECURSIVE SendOthersFrom(_, _, _)
\* the per-player loop of netplay_send_cur_input (server) from `player` on
SendOthersFrom(n, c, player) ==
  IF player >= MAX_USERS THEN [n EXCEPT !.ok = TRUE]
  ELSE
    LET cn == n.connections[c]
        dframe == n.buffer[n.self_ptr]
    IN
    IF CurInputSkips(cn, player)
    THEN SendOthersFrom(n, c, player + 1)
    ELSE IF player \in n.connected_players /\ dframe.have_real[player]
         THEN LET n1 == send_input_frame(n, c, -1, n.self_frame_count,
                                         InputWord(player, FALSE),
                                         dframe.real_input_state[player])
              IN IF n1.ok THEN SendOthersFrom(n1, c, player + 1) ELSE n1
         ELSE SendOthersFrom(n, c, player + 1)

netplay_send_cur_input(n, c) ==
  LET dframe == n.buffer[n.self_ptr]
      a == IF n.is_server THEN SendOthersFrom(n, c, 0) ELSE [n EXCEPT !.ok = TRUE]
      b == IF a.ok /\ n.is_server /\ a.self_mode # "PLAYING"
           THEN netplay_send_raw_cmd(a, c, "NOINPUT", <<a.self_frame_count>>)
           ELSE a
      d == IF b.ok /\ b.self_mode = "PLAYING"
           THEN send_input_frame(b, c, -1, b.self_frame_count,
                  InputWord(b.self_player, b.is_server), dframe.self_state)
           ELSE b
  IN IF d.ok THEN [d EXCEPT !.ok = SendOk(d, c)] ELSE d

(* ----------------------- netplay_simulate_input ----------------------- *)
\* bit numbers of the joypad buttons in word 0 of a controller state
RETRO_DEVICE_ID_JOYPAD_B == 0
RETRO_DEVICE_ID_JOYPAD_UP == 4
RETRO_DEVICE_ID_JOYPAD_DOWN == 5
RETRO_DEVICE_ID_JOYPAD_LEFT == 6
RETRO_DEVICE_ID_JOYPAD_RIGHT == 7
\* 1U << id
JoypadBit(id) == 2 ^ id

RECURSIVE BitAnd(_, _)
\* x & y on unsigned words
BitAnd(x, y) ==
  IF x = 0 \/ y = 0 THEN 0
  ELSE (x % 2) * (y % 2) + 2 * BitAnd(x \div 2, y \div 2)
\* x & ~y
BitAndNot(x, y) == x - BitAnd(x, y)
\* x | y
BitOr(x, y) == x + y - BitAnd(x, y)

\* the mask `keep` of the resimulation branch
SimKeep ==
  JoypadBit(RETRO_DEVICE_ID_JOYPAD_UP) + JoypadBit(RETRO_DEVICE_ID_JOYPAD_DOWN)
    + JoypadBit(RETRO_DEVICE_ID_JOYPAD_LEFT) + JoypadBit(RETRO_DEVICE_ID_JOYPAD_RIGHT)

\* the masks turned round: the bits under keep taken from the real input,
\* the others left as predicted
SimResim_directions(sim, real) ==
  [sim EXCEPT ![1] = BitOr(BitAndNot(sim[1], SimKeep), BitAnd(real[1], SimKeep))]

\* the resimulation branch: word 0 keeps its bits under keep and takes the
\* others from the real input; the words after it are not written
SimResim(sim, real) ==
  [sim EXCEPT ![1] = BitOr(BitAnd(sim[1], SimKeep), BitAndNot(real[1], SimKeep))]

RECURSIVE SimulateFrom(_, _, _, _)
\* the loop of netplay_simulate_input from `player` on
SimulateFrom(n, sim_ptr, resim, player) ==
  IF player >= MAX_USERS THEN n
  ELSE
    LET simframe == n.buffer[sim_ptr]
        prev == PREV_PTR(n.read_ptr[player])
        pframe == n.buffer[prev]
    IN
    IF player \notin n.connected_players \/ simframe.have_real[player]
    THEN SimulateFrom(n, sim_ptr, resim, player + 1)
    ELSE SimulateFrom(
           [n EXCEPT !.buffer[sim_ptr].simulated_input_state[player] =
              IF resim THEN SimResim(@, pframe.real_input_state[player])
              ELSE pframe.real_input_state[player]],
           sim_ptr, resim, player + 1)

netplay_simulate_input(n, sim_ptr, resim) == SimulateFrom(n, sim_ptr, resim, 0)

(* ----------------------- read pointers and ring ----------------------- *)
\* the player the loop of netplay_update_unread_ptr settles on: the lowest
\* index among those with the least read_frame_count
\* the comparison turned round: the player with the most read
MinReader_max(n) ==
  CHOOSE p \in n.connected_players :
    \A q \in n.connected_players :
      \/ n.read_frame_count[p] > n.read_frame_count[q]
      \/ (n.read_frame_count[p] = n.read_frame_count[q] /\ p <= q)

MinReader(n) ==
  CHOOSE p \in n.connected_players :
    \A q \in n.connected_players :
      \/ n.read_frame_count[p] < n.read_frame_count[q]
      \/ (n.read_frame_count[p] = n.read_frame_count[q] /\ p <= q)

netplay_update_unread_ptr(n) ==
  IF n.is_server /\ n.connected_players = {}
  THEN [n EXCEPT !.unread_ptr = n.self_ptr, !.unread_frame_count = n.self_frame_count]
  ELSE
    \* with nobody connected the minimum stays at (uint32_t) -1, which every
    \* server_frame_count is below; this branch is then a client's
    LET none == n.connected_players = {}
        srv == ~n.is_server /\
                 (none \/ n.server_frame_count < n.read_frame_count[MinReader(n)])
    IN [n EXCEPT !.unread_ptr = IF srv THEN n.server_ptr
                                ELSE n.read_ptr[MinReader(n)],
                 !.unread_frame_count = IF srv THEN n.server_frame_count
                                        ELSE n.read_frame_count[MinReader(n)]]

\* netplay_delta_frame_ready: .ok is the return value.  A slot already holding
\* the frame is left alone; otherwise it is reinitialised, which needs the core
\* to serialize its state.
netplay_delta_frame_ready(n, ptr, frame) ==
  LET delta == n.buffer[ptr] IN
  IF delta.used /\ delta.frame = frame THEN [n EXCEPT !.ok = TRUE]
  ELSE IF ~n.ser_ok THEN [n EXCEPT !.ok = FALSE]
  ELSE [n EXCEPT !.ok = TRUE,
                 !.buffer[ptr] = [EmptyFrame EXCEPT !.used = TRUE, !.frame = frame,
                                                    !.state = "saved"]]

(* --------------------------- netplay_get_cmd -------------------------- *)
\* A command as it sits in the receive buffer: cmd and cmd_size are the
\* header, a and b the first two payload words, state the input words, and
\* avail how much of the payload has arrived ("full", or the RECV at which
\* the read comes up short: "header" = none of it, "part1"/"part2" = up to
\* the first / second word) or "error" when the socket fails under the payload.

\* commit of a fully parsed command: recv_flush, timeout_cnt = 0, *had_input = true
CmdDone(n) == [n EXCEPT !.timeout_cnt = 0, !.had_input = TRUE, !.ok = TRUE]
\* shrt: recv_reset, return true
CmdShort(n) == [n EXCEPT !.ok = TRUE]

\* "We already had this"
InputDuplicate_short(n, player, frame) == frame + 1 < n.read_frame_count[player]
InputDuplicate(n, player, frame) == frame < n.read_frame_count[player]

\* "Out of order = out of luck"
InputOutOfOrder_gap(n, player, frame) == frame > n.read_frame_count[player] + 1
InputOutOfOrder(n, player, frame) == frame > n.read_frame_count[player]

\* "If this was server data, advance our server pointer too"
InputServerAdvance_frame(n, player, frame) ==
  [n EXCEPT !.server_ptr = n.read_ptr[player], !.server_frame_count = frame]
InputServerAdvance(n, player, frame) ==
  [n EXCEPT !.server_ptr = n.read_ptr[player],
            !.server_frame_count = n.read_frame_count[player]]

\* "Forward it on if it's past data"
InputIsPast_always(n, ptr) == TRUE
InputIsPast(n, ptr) == n.buffer[ptr].frame <= n.self_frame_count

\* "The data's good!", with the reader left where it was
InputStore_stay(n, ptr, player, m) ==
  [n EXCEPT !.buffer[ptr].real_input_state[player] = m.state,
            !.buffer[ptr].have_real[player] = TRUE,
            !.got = <<player, m.a>>]
\* "The data's good!": the input goes into the slot and the reader moves on
InputStore(n, ptr, player, m) ==
  [n EXCEPT !.buffer[ptr].real_input_state[player] = m.state,
            !.buffer[ptr].have_real[player] = TRUE,
            !.read_ptr[player] = NEXT_PTR(ptr),
            !.read_frame_count[player] = @ + 1,
            !.got = <<player, m.a>>]

cmd_input(n, c, m) ==
  IF m.cmd_size # WORDS_PER_FRAME * 4 THEN netplay_cmd_nak(n, c)
  ELSE IF m.avail # "full" /\ m.avail # "error" THEN CmdShort(n)
  ELSE IF m.avail = "error" THEN netplay_cmd_nak(n, c)
  ELSE IF n.is_server /\ n.connections[c].mode # "PLAYING" THEN netplay_cmd_nak(n, c)
  ELSE
    LET player == IF n.is_server THEN n.connections[c].player
                  ELSE InputWordPlayer(m.b)
    IN
    IF player >= MAX_USERS \/ player \notin n.connected_players
    THEN netplay_cmd_nak(n, c)
    ELSE IF InputDuplicate(n, player, m.a) THEN CmdDone(n)
    ELSE IF InputOutOfOrder(n, player, m.a) THEN netplay_cmd_nak(n, c)
    ELSE
      LET ptr == n.read_ptr[player]
          r == netplay_delta_frame_ready(n, ptr, n.read_frame_count[player])
      IN
      IF ~r.ok THEN netplay_cmd_nak(n, c)
      ELSE
        LET n1 == InputStore(r, ptr, player, m)
            n2 == IF n1.is_server /\ InputIsPast(n1, ptr)
                  THEN send_input_frame(n1, -1, c, m.a, InputWord(player, FALSE),
                                        n1.buffer[ptr].real_input_state[player])
                  ELSE n1
            n3 == IF ~n2.is_server /\ InputWordServer(m.b)
                  THEN InputServerAdvance(n2, player, m.a)
                  ELSE n2
        IN CmdDone(n3)

\* NOINPUT that counts the frame and leaves the pointer
cmd_noinput_count(n, c, m) ==
  IF n.is_server THEN netplay_cmd_nak(n, c)
  ELSE IF m.avail = "error" THEN netplay_cmd_nak(n, c)
  ELSE IF m.avail # "full" THEN CmdShort(n)
  ELSE IF m.a # n.server_frame_count THEN netplay_cmd_nak(n, c)
  ELSE CmdDone([n EXCEPT !.server_frame_count = @ + 1])

cmd_noinput(n, c, m) ==
  IF n.is_server THEN netplay_cmd_nak(n, c)
  ELSE IF m.avail = "error" THEN netplay_cmd_nak(n, c)
  ELSE IF m.avail # "full" THEN CmdShort(n)
  ELSE IF m.a # n.server_frame_count THEN netplay_cmd_nak(n, c)
  ELSE CmdDone([n EXCEPT !.server_ptr = NEXT_PTR(@),
                         !.server_frame_count = @ + 1])

\* a SPECTATE that is always answered with frame 0
cmd_spectate_zero(n, c, m) ==
  IF ~n.is_server THEN netplay_cmd_nak(n, c)
  ELSE
    LET cn == n.connections[c]
        n1 == IF cn.mode = "PLAYING"
              THEN netplay_send_raw_cmd_all(
                     [n EXCEPT !.connections[c].mode = "SPECTATING",
                               !.connected_players = @ \ {cn.player}],
                     c, "MODE",
                     <<n.read_frame_count[cn.player], ModeWord(FALSE, FALSE, cn.player)>>)
              ELSE n
    IN CmdDone(netplay_send_raw_cmd(n1, c, "MODE", <<0, ModeWord(FALSE, TRUE, cn.player)>>))

cmd_spectate(n, c, m) ==
  IF ~n.is_server THEN netplay_cmd_nak(n, c)
  ELSE
    LET cn == n.connections[c]
        n1 == IF cn.mode = "PLAYING"
              THEN netplay_send_raw_cmd_all(
                     [n EXCEPT !.connections[c].mode = "SPECTATING",
                               !.connected_players = @ \ {cn.player}],
                     c, "MODE",
                     <<n.read_frame_count[cn.player], ModeWord(FALSE, FALSE, cn.player)>>)
              ELSE n
        frame == IF cn.mode = "PLAYING" THEN n.read_frame_count[cn.player] ELSE 0
    IN CmdDone(netplay_send_raw_cmd(n1, c, "MODE",
                 <<frame, ModeWord(FALSE, TRUE, cn.player)>>))

\* a slot search that does not look at who is connected
FreePlayer_taken(n) ==
  LET free == { p \in Players : ~(n.self_mode = "PLAYING" /\ n.self_player = p) }
  IN IF free = {} THEN MAX_USERS
     ELSE CHOOSE p \in free : \A q \in free : p <= q

\* the slot search of NETPLAY_CMD_PLAY: the lowest free player, MAX_USERS if none
FreePlayer(n) ==
  LET free == { p \in Players :
                  /\ ~(n.self_mode = "PLAYING" /\ n.self_player = p)
                  /\ p \notin n.connected_players }
  IN IF free = {} THEN MAX_USERS
     ELSE CHOOSE p \in free : \A q \in free : p <= q

\* "And expect their data", from the frame the server is in
PlayExpect_now(n, player) ==
  [n EXCEPT !.read_ptr[player] = n.self_ptr,
            !.read_frame_count[player] = n.self_frame_count]
\* "And expect their data"
PlayExpect(n, player) ==
  [n EXCEPT !.read_ptr[player] = NEXT_PTR(n.self_ptr),
            !.read_frame_count[player] = n.self_frame_count + 1]

cmd_play(n, c, m) ==
  IF ~n.is_server THEN netplay_cmd_nak(n, c)
  ELSE
    LET player == FreePlayer(n)
        frame == n.self_frame_count + 1
    IN
    IF player = MAX_USERS THEN netplay_cmd_nak(n, c)
    ELSE
      LET n1 == IF n.connections[c].mode # "PLAYING"
                THEN netplay_send_raw_cmd_all(
                       [n EXCEPT !.connections[c].mode = "PLAYING",
                                 !.connections[c].player = player,
                                 !.connected_players = @ \cup {player}],
                       c, "MODE", <<frame, ModeWord(TRUE, FALSE, player)>>)
                ELSE n
          n2 == netplay_send_raw_cmd(n1, c, "MODE",
                  <<frame, ModeWord(TRUE, TRUE, n1.connections[c].player)>>)
      IN CmdDone(PlayExpect(n2, player))

\* "It wanted past frames", with only the first of them sent
WalkPast_one(n, c, ptr, player, fuel) ==
  LET dframe == n.buffer[ptr] IN
  IF ~(dframe.used /\ dframe.frame <= n.self_frame_count) THEN n
  ELSE send_input_frame(
         [n EXCEPT !.buffer[ptr].real_input_state[player] = dframe.self_state,
                   !.buffer[ptr].have_real[player] = TRUE],
         c, -1, dframe.frame, InputWord(player, FALSE), dframe.self_state)

RECURSIVE WalkPast(_, _, _, _, _)
\* NETPLAY_CMD_MODE, "It wanted past frames": the loop from START(server_ptr).
\* The loop has no exit once it has been round the ring (fuel = 0): .hung
WalkPast(n, c, ptr, player, fuel) ==
  LET dframe == n.buffer[ptr] IN
  IF ~(dframe.used /\ dframe.frame <= n.self_frame_count) THEN n
  ELSE IF fuel = 0 THEN [n EXCEPT !.hung = TRUE]
  ELSE
    LET n1 == [n EXCEPT !.buffer[ptr].real_input_state[player] = dframe.self_state,
                        !.buffer[ptr].have_real[player] = TRUE]
        n2 == send_input_frame(n1, c, -1, dframe.frame, InputWord(player, FALSE),
                               dframe.self_state)
    IN IF dframe.frame = n.self_frame_count THEN n2
       ELSE WalkPast(n2, c, NEXT_PTR(ptr), player, fuel - 1)

RECURSIVE WalkFuture(_, _, _, _, _)
\* NETPLAY_CMD_MODE, "It wants future frames": the loop from START(self_ptr)
WalkFuture(n, ptr, player, frame, fuel) ==
  LET dframe == n.buffer[ptr] IN
  IF ~(dframe.used /\ dframe.frame < frame) THEN n
  ELSE IF fuel = 0 THEN [n EXCEPT !.hung = TRUE]
  ELSE WalkFuture([n EXCEPT !.buffer[ptr].self_state = ZeroInput,
                            !.buffer[ptr].real_input_state[player] = ZeroInput,
                            !.buffer[ptr].have_local = TRUE],
                  NEXT_PTR(ptr), player, frame, fuel - 1)

\* somebody else is joining, and is read from wherever it was read before
ModeJoin_unseeded(n, player) ==
  [n EXCEPT !.connected_players = @ \cup {player}]
\* "Somebody else is joining": expected from the server's frame on
ModeJoin(n, player) ==
  [n EXCEPT !.connected_players = @ \cup {player},
            !.read_ptr[player] = n.server_ptr,
            !.read_frame_count[player] = n.server_frame_count]

\* "We're changing past input, so must replay it"
ModePastRewind_never(n, frame) == n
ModePastRewind(n, frame) ==
  IF frame < n.self_frame_count THEN [n EXCEPT !.force_rewind = TRUE] ELSE n

cmd_mode(n, c, m) ==
  IF m.cmd_size # 8 \/ n.is_server THEN netplay_cmd_nak(n, c)
  ELSE IF m.avail = "error" THEN netplay_cmd_nak(n, c)
  ELSE IF m.avail # "full" THEN CmdShort(n)
  ELSE
    LET frame == m.a
        mode == m.b
        player == ModeWordPlayer(mode)
        n1 == ModePastRewind(n, frame)
    IN
    IF player >= MAX_USERS THEN netplay_cmd_nak(n1, c)
    ELSE IF BitSet(mode, NETPLAY_CMD_MODE_BIT_YOU)
    THEN IF BitSet(mode, NETPLAY_CMD_MODE_BIT_PLAYING)
         THEN IF frame # n1.server_frame_count THEN netplay_cmd_nak(n1, c)
              ELSE IF n1.self_mode = "PLAYING" THEN netplay_cmd_nak(n1, c)
              ELSE
                LET n2 == [n1 EXCEPT !.self_mode = "PLAYING", !.self_player = player]
                IN IF frame <= n2.self_frame_count
                   THEN CmdDone(WalkPast(n2, c, n2.server_ptr, player, buffer_size))
                   ELSE CmdDone(WalkFuture(n2, n2.self_ptr, player, frame, buffer_size))
         ELSE IF n1.self_mode # "SPECTATING" THEN netplay_cmd_nak(n1, c)
              ELSE CmdDone(n1)
    ELSE IF BitSet(mode, NETPLAY_CMD_MODE_BIT_PLAYING)
         THEN IF frame # n1.server_frame_count THEN netplay_cmd_nak(n1, c)
              ELSE CmdDone(ModeJoin(n1, player))
         ELSE CmdDone([n1 EXCEPT !.connected_players = @ \ {player}])

\* "Skip ahead if it's past where we are"
LoadSkipAhead_stay(n, player, frame) == n
LoadSkipAhead(n, player, frame) ==
  IF frame > n.self_frame_count
  THEN [n EXCEPT !.self_ptr = PREV_PTR(n.read_ptr[player]),
                 !.self_frame_count = frame - 1]
  ELSE n

\* "Don't expect earlier data from other clients"
LoadSkipReads_back(n, player, frame) ==
  [n EXCEPT
     !.read_ptr = [p \in Players |->
        IF p \in n.connected_players /\ frame < n.read_frame_count[p]
        THEN n.read_ptr[player] ELSE n.read_ptr[p]],
     !.read_frame_count = [p \in Players |->
        IF p \in n.connected_players /\ frame < n.read_frame_count[p]
        THEN frame ELSE n.read_frame_count[p]]]
LoadSkipReads(n, player, frame) ==
  [n EXCEPT
     !.read_ptr = [p \in Players |->
        IF p \in n.connected_players /\ frame > n.read_frame_count[p]
        THEN n.read_ptr[player] ELSE n.read_ptr[p]],
     !.read_frame_count = [p \in Players |->
        IF p \in n.connected_players /\ frame > n.read_frame_count[p]
        THEN frame ELSE n.read_frame_count[p]]]

\* the payload does not fit the scratch buffer
LoadTooLong_never(m) == FALSE
LoadTooLong(m) == m.cmd_size > zbuffer_size + 8

\* cmd_size - 2*sizeof(uint32_t), the length of the read into zbuffer, in
\* unsigned arithmetic: a cmd_size below 8 wraps round to the top of the range
\* (cut here to the 31 bits the integers of the model have)
LoadReadLen(m) ==
  IF m.cmd_size >= 8 THEN m.cmd_size - 8 ELSE 2147483647 - (8 - m.cmd_size) + 1

\* what a receive buffer holds at most: one state transfer, the input of
\* delay_frames frames and their headers
RecvBufferSize ==
  2 * state_size + delay_frames * WORDS_PER_FRAME * 4 + (delay_frames + 1) * 12

\* RECV(netplay->zbuffer, ...) comes up short: the bytes have not all arrived,
\* or there are more of them than a receive buffer ever holds
LoadReadShort(m) == m.avail = "part2" \/ LoadReadLen(m) > RecvBufferSize

\* "And decompress it", into the slot the server runs
LoadInflate_self(n, player) ==
  [n EXCEPT !.buffer[n.self_ptr].state = "loaded"]
\* "And decompress it": into the slot the sender's input is read to next
LoadInflate(n, player) ==
  [n EXCEPT !.buffer[n.read_ptr[player]].state = "loaded"]

\* NETPLAY_CMD_LOAD_SAVESTATE; a = frame, b = the inflated size.  The core is
\* taken to be initialised (no NETPLAY_QUIRK_INITIALIZATION).
cmd_load_savestate(n, c, m) ==
  LET cn == n.connections[c]
      frame == m.a
  IN
  IF cn.mode # "PLAYING" THEN netplay_cmd_nak(n, c)
  ELSE IF LoadTooLong(m) THEN netplay_cmd_nak(n, c)
  ELSE IF m.avail = "error" THEN netplay_cmd_nak(n, c)
  ELSE IF m.avail = "header" THEN CmdShort(n)
  ELSE IF frame # n.read_frame_count[cn.player] THEN netplay_cmd_nak(n, c)
  ELSE IF m.avail = "part1" THEN CmdShort(n)
  ELSE IF m.b # state_size THEN netplay_cmd_nak(n, c)
  ELSE IF LoadReadShort(m) THEN CmdShort(n)
  ELSE
    LET n0 == LoadInflate(n, cn.player)
        n1 == LoadSkipAhead(n0, cn.player, frame)
        n2 == LoadSkipReads(n1, cn.player, frame)
    IN CmdDone([n2 EXCEPT !.force_rewind = TRUE,
                          !.savestate_request_outstanding = FALSE,
                          !.other_ptr = n2.read_ptr[cn.player],
                          !.other_frame_count = frame])

\* a FLIP_PLAYERS that a server takes as a client does
cmd_flip_players_any(n, c, m) ==
  IF m.cmd_size # 4 THEN netplay_cmd_nak(n, c)
  ELSE IF m.avail = "error" THEN netplay_cmd_nak(n, c)
  ELSE IF m.avail # "full" THEN CmdShort(n)
  ELSE IF m.a < n.server_frame_count THEN netplay_cmd_nak(n, c)
  ELSE CmdDone([n EXCEPT !.flip = ~n.flip, !.flip_frame = m.a,
                         !.force_rewind = @ \/ m.a < n.self_frame_count])

\* NETPLAY_CMD_FLIP_PLAYERS; a = flip_frame
cmd_flip_players(n, c, m) ==
  IF m.cmd_size # 4 THEN netplay_cmd_nak(n, c)
  ELSE IF m.avail = "error" THEN netplay_cmd_nak(n, c)
  ELSE IF m.avail # "full" THEN CmdShort(n)
  ELSE IF n.is_server THEN netplay_cmd_nak(n, c)
  ELSE IF m.a < n.server_frame_count THEN netplay_cmd_nak(n, c)
  ELSE CmdDone([n EXCEPT !.flip = ~n.flip, !.flip_frame = m.a,
                         !.force_rewind = @ \/ m.a < n.self_frame_count])

\* netplay_delta_frame_crc: a checksum over self_state and the real input of
\* every connected player, in player order
InputSum(state) == state[1] + 2 * state[2] + 3 * state[3]
RECURSIVE CrcFrom(_, _, _, _)
CrcFrom(n, ptr, player, acc) ==
  IF player >= MAX_USERS THEN acc
  ELSE CrcFrom(n, ptr, player + 1,
               IF player \in n.connected_players
               THEN (acc * 31 + InputSum(n.buffer[ptr].real_input_state[player])) % 65521
               ELSE acc)
netplay_delta_frame_crc(n, ptr) ==
  CrcFrom(n, ptr, 0, InputSum(n.buffer[ptr].self_state))

\* a request that is sent again while one is outstanding
netplay_cmd_request_savestate_again(n) ==
  IF \/ ConnCount(n) = 0
     \/ ~n.connections[0].active
     \/ ~IsConnected(n.connections[0].mode)
  THEN [n EXCEPT !.ok = FALSE]
  ELSE netplay_send_raw_cmd([n EXCEPT !.savestate_request_outstanding = TRUE],
                            0, "REQUEST_SAVESTATE", <<>>)

\* netplay_cmd_request_savestate: .ok is the return value
netplay_cmd_request_savestate(n) ==
  IF \/ ConnCount(n) = 0
     \/ ~n.connections[0].active
     \/ ~IsConnected(n.connections[0].mode)
  THEN [n EXCEPT !.ok = FALSE]
  ELSE IF n.savestate_request_outstanding THEN [n EXCEPT !.ok = TRUE]
  ELSE netplay_send_raw_cmd([n EXCEPT !.savestate_request_outstanding = TRUE],
                            0, "REQUEST_SAVESTATE", <<>>)

RECURSIVE FindFrame(_, _, _, _)
\* the search of NETPLAY_CMD_CRC backward from self_ptr for the slot that
\* holds `frame`: the slot, or -1 once the search is back at self_ptr
FindFrame(n, tmp_ptr, frame, first) ==
  IF ~first /\ tmp_ptr = n.self_ptr THEN -1
  ELSE IF n.buffer[tmp_ptr].used /\ n.buffer[tmp_ptr].frame = frame THEN tmp_ptr
  ELSE FindFrame(n, PREV_PTR(tmp_ptr), frame, FALSE)

\* NETPLAY_CMD_CRC; a = frame, b = crc
cmd_crc(n, c, m) ==
  IF m.cmd_size # 8 THEN netplay_cmd_nak(n, c)
  ELSE IF m.avail = "error" THEN netplay_cmd_nak(n, c)
  ELSE IF m.avail # "full" THEN CmdShort(n)
  ELSE
    LET tmp_ptr == FindFrame(n, n.self_ptr, m.a, TRUE) IN
    IF tmp_ptr = -1 THEN CmdDone(n)
    ELSE IF m.a <= n.other_frame_count
    THEN IF m.b # netplay_delta_frame_crc(n, tmp_ptr)
         THEN CmdDone(netplay_cmd_request_savestate(n))
         ELSE CmdDone(n)
    ELSE CmdDone([n EXCEPT !.buffer[tmp_ptr].crc = m.b])

\* NETPLAY_CMD_REQUEST_SAVESTATE
cmd_request_savestate(n, c, m) ==
  CmdDone([n EXCEPT !.force_send_savestate = TRUE])

\* a PAUSE that marks the connection but not the session
cmd_pause_quiet(n, c, m) ==
  CmdDone(netplay_send_raw_cmd_all(
            [n EXCEPT !.connections[c].paused = TRUE], c, "PAUSE", <<>>))

cmd_pause(n, c, m) ==
  CmdDone(netplay_send_raw_cmd_all(
            [n EXCEPT !.connections[c].paused = TRUE, !.remote_paused = TRUE],
            c, "PAUSE", <<>>))

cmd_resume(n, c, m) ==
  LET n1 == [n EXCEPT !.connections[c].paused = FALSE]
      rp == \E i \in DOMAIN n1.connections :
              n1.connections[i].active /\ n1.connections[i].paused
      n2 == [n1 EXCEPT !.remote_paused = rp]
  IN CmdDone(IF ~rp /\ ~n2.local_paused
             THEN netplay_send_raw_cmd_all(n2, c, "RESUME", <<>>)
             ELSE n2)

\* netplay_get_cmd on a connection in a connected mode, once the header of m
\* has been read; .ok is the return value
netplay_get_cmd(n, c, m) ==
  LET n0 == [n EXCEPT !.timeout_cnt = 0] IN
  CASE m.cmd = "ACK" -> CmdDone(n0)
    [] m.cmd = "NAK" -> [n0 EXCEPT !.ok = FALSE]
    [] m.cmd = "INPUT" -> cmd_input(n0, c, m)
    [] m.cmd = "NOINPUT" -> cmd_noinput(n0, c, m)
    [] m.cmd = "FLIP_PLAYERS" -> cmd_flip_players(n0, c, m)
    [] m.cmd = "SPECTATE" -> cmd_spectate(n0, c, m)
    [] m.cmd = "PLAY" -> cmd_play(n0, c, m)
    [] m.cmd = "MODE" -> cmd_mode(n0, c, m)
    [] m.cmd = "DISCONNECT" -> [netplay_hangup(n0, c) EXCEPT !.ok = TRUE]
    [] m.cmd = "CRC" -> cmd_crc(n0, c, m)
    [] m.cmd = "REQUEST_SAVESTATE" -> cmd_request_savestate(n0, c, m)
    [] m.cmd = "LOAD_SAVESTATE" -> cmd_load_savestate(n0, c, m)
    [] m.cmd = "PAUSE" -> cmd_pause(n0, c, m)
    [] m.cmd = "RESUME" -> cmd_resume(n0, c, m)
    [] OTHER -> netplay_cmd_nak(n0, c)

(* ------------------------- commands on the wire ----------------------- *)
\* frame numbers a peer names: up to one past the last frame the host runs
Frames == 0 .. (MaxFrame + 1)

\* the player words a peer may put in an INPUT or a MODE (one past the last
\* player included)
WirePlayers == 0 .. MAX_USERS

\* commands without a payload
Bare(kinds) == { M(k, 0, 0, InputWord(0, FALSE), ZeroInput, "full") : k \in kinds }

\* INPUT with the right payload size, and one with a wrong one
InputMsgs(words) ==
  { M("INPUT", WORDS_PER_FRAME * 4, f, w, st, "full") :
      f \in Frames, w \in words, st \in InputVals }
  \cup { M("INPUT", WORDS_PER_INPUT * 4, 0, InputWord(0, FALSE), ZeroInput, "full") }

NoinputMsgs(frames) == { M("NOINPUT", 4, f, 0, ZeroInput, "full") : f \in frames }

ModeMsgs(frames, players) ==
  { M("MODE", 8, f, ModeWord(pl, you, p), ZeroInput, "full") :
      f \in frames, pl \in BOOLEAN, you \in BOOLEAN, p \in players }
  \cup { M("MODE", 4, 0, 0, ZeroInput, "full") }

\* LOAD_SAVESTATE with a payload that fits the scratch buffer or is one byte
\* too long, and an inflated size that is right or wrong
LoadMsgs ==
  { M("LOAD_SAVESTATE", sz, f, isz, ZeroInput, "full") :
      sz \in {8 + 1, zbuffer_size + 8 + 1}, f \in Frames,
      isz \in {state_size, state_size + 1} }

\* LOAD_SAVESTATE whose header announces fewer bytes than the frame and the
\* inflated size take; the words read as frame and inflated size are then
\* whatever the peer sends next
ShortLoadMsgs ==
  { M("LOAD_SAVESTATE", sz, f, isz, ZeroInput, "full") :
      sz \in {0, 4}, f \in {0, 1}, isz \in {state_size, state_size + 1} }

\* the same commands with the payload cut short, or the socket failing under it
PartialMsgs ==
  { M(k, sz, 0, InputWord(0, FALSE), ZeroInput, av) :
      k \in {"INPUT"}, sz \in {WORDS_PER_FRAME * 4}, av \in {"header", "error"} }
  \cup { M(k, sz, 0, 0, ZeroInput, av) :
      k \in {"NOINPUT"}, sz \in {4}, av \in {"header", "error"} }
  \cup { M(k, sz, 0, 0, ZeroInput, av) :
      k \in {"MODE"}, sz \in {8}, av \in {"header", "error"} }
  \cup { M("LOAD_SAVESTATE", 8 + 1, f, state_size, ZeroInput, av) :
      f \in Frames, av \in {"header", "part1", "part2", "error"} }

\* what a client's peer sends to a server; the player word of an INPUT and the
\* payload of a command a server refuses are not looked at, so one value each
ServerMsgs ==
  Bare({"ACK", "NAK", "SPECTATE", "PLAY", "DISCONNECT", "UNKNOWN"})
  \cup InputMsgs({InputWord(0, FALSE), InputWord(MAX_USERS, TRUE)})
  \cup NoinputMsgs({0}) \cup ModeMsgs({0}, {0}) \cup LoadMsgs \cup PartialMsgs

\* what the server sends to a client
ClientMsgs ==
  Bare({"ACK", "NAK", "SPECTATE", "PLAY", "DISCONNECT", "UNKNOWN"})
  \cup InputMsgs({InputWord(p, sb) : p \in WirePlayers, sb \in BOOLEAN})
  \cup NoinputMsgs(Frames) \cup ModeMsgs(Frames, WirePlayers)
  \cup LoadMsgs \cup PartialMsgs

\* the commands of a stalled session: pauses, a peer that starts to play, and
\* a spectating server's frames
StallMsgs ==
  Bare({"ACK", "PAUSE", "RESUME", "PLAY"}) \cup NoinputMsgs(Frames)

\* the commands of players joining and leaving
JoinMsgs ==
  Bare({"PLAY", "SPECTATE", "DISCONNECT"})
  \cup { M("INPUT", WORDS_PER_FRAME * 4, f, InputWord(0, FALSE), st, "full") :
           f \in Frames, st \in InputVals }

\* FLIP_PLAYERS with the right payload size, and one with a wrong one
FlipMsgs ==
  { M("FLIP_PLAYERS", 4, f, 0, ZeroInput, "full") : f \in Frames }
  \cup { M("FLIP_PLAYERS", 8, 0, 0, ZeroInput, "full") }

\* the checksums a peer reports
CrcVals == 0 .. MaxInput
\* CRC with the right payload size, and one with a wrong one
CrcMsgs ==
  { M("CRC", 8, f, v, ZeroInput, "full") : f \in Frames, v \in CrcVals }
  \cup { M("CRC", 4, 0, 0, ZeroInput, "full") }

\* the commands of a session in which peers break the protocol: commands of
\* the wrong size, for the wrong role or unknown, next to the ones that set the
\* roles up
ProtoMsgs ==
  Bare({"PLAY", "SPECTATE", "UNKNOWN", "REQUEST_SAVESTATE"})
  \cup InputMsgs({InputWord(0, FALSE)})
  \cup NoinputMsgs(Frames) \cup ModeMsgs({0}, {0})
  \cup FlipMsgs \cup CrcMsgs

\* the commands of a session with a pausing peer: a peer starts to play,
\* pauses, resumes, and sends its input
PauseMsgs ==
  Bare({"PLAY", "PAUSE", "RESUME"})
  \cup { M("INPUT", WORDS_PER_FRAME * 4, f, InputWord(0, FALSE), ZeroInput, "full") :
           f \in Frames }

\* the command dispatched by the last step and the connection it came on
Ev(c, m) == [c |-> c, m |-> m]
NoEv == Ev(-1, M("NONE", 0, 0, InputWord(0, FALSE), ZeroInput, "full"))

(* ------------------------------ the host ------------------------------ *)
\* a client's session when its handshake is done: it spectates, counts its
\* frames from the server's frame and expects the input of `players` from there
SyncedClient(frame, players) ==
  [ is_server |-> FALSE, self_mode |-> "SPECTATING", self_player |-> 0,
    connected_players |-> players,
    connections |-> [i \in {0} |-> [EmptyConnection EXCEPT !.active = TRUE,
                                                           !.mode = "PLAYING"]],
    buffer |-> [s \in Slots |-> EmptyFrame],
    self_ptr |-> 0, self_frame_count |-> frame,
    other_ptr |-> 0, other_frame_count |-> frame,
    unread_ptr |-> 0, unread_frame_count |-> frame,
    server_ptr |-> 0, server_frame_count |-> frame,
    read_ptr |-> [p \in Players |-> 0],
    read_frame_count |-> [p \in Players |-> frame],
    force_rewind |-> FALSE, remote_paused |-> FALSE,
    flip |-> FALSE, flip_frame |-> 0,
    savestate_request_outstanding |-> FALSE, force_send_savestate |-> FALSE,
    timeout_cnt |-> 0, had_input |-> FALSE, sent |-> <<>>,
    local_paused |-> FALSE,
    ok |-> TRUE, hung |-> FALSE, got |-> <<>>, fail |-> {}, ser_ok |-> TRUE ]

\* the far end of the server's first connection while nothing is modelled
\* there: n is the session of the client, c2s and s2c the commands on their
\* way to the server and to the client, cmd the command the client dispatched
\* last, asked whether it has asked to play
NoPeer ==
  [ attached |-> FALSE, n |-> SyncedClient(0, {}), c2s |-> <<>>, s2c |-> <<>>,
    cmd |-> NoEv.m, asked |-> FALSE ]

\* netplay_new: a calloc'ed session; the server plays and has no connection
\* yet, the client has its one connection, opened and in the handshake
Init ==
  /\ is_server \in BOOLEAN
  /\ self_mode = IF is_server THEN "PLAYING" ELSE "INIT"
  /\ self_player = 0
  /\ connected_players = {}
  /\ connections = IF is_server THEN [i \in {} |-> EmptyConnection]
                   ELSE [i \in {0} |-> [EmptyConnection EXCEPT !.active = TRUE, !.mode = "INIT"]]
  /\ buffer = [s \in Slots |-> EmptyFrame]
  /\ self_ptr = 0 /\ self_frame_count = 0
  /\ other_ptr = 0 /\ other_frame_count = 0
  /\ unread_ptr = 0 /\ unread_frame_count = 0
  /\ server_ptr = 0 /\ server_frame_count = 0
  /\ read_ptr = [p \in Players |-> 0]
  /\ read_frame_count = [p \in Players |-> 0]
  /\ force_rewind = FALSE
  /\ remote_paused = FALSE
  /\ flip = FALSE /\ flip_frame = 0
  /\ savestate_request_outstanding = FALSE
  /\ force_send_savestate = FALSE
  /\ timeout_cnt = 0
  /\ phase = "pre"
  /\ poll_i = -1
  /\ block = FALSE
  /\ had_input = FALSE
  /\ ret = 0
  /\ sent = <<>>
  /\ got = <<>>
  /\ ev = NoEv
  /\ waits = 0
  /\ acc_next = [p \in Players |-> 0]
  /\ ncmds = 0
  /\ peer = NoPeer

\* what a step leaves of the bookkeeping that is not session state
Quiet == ev' = NoEv /\ UNCHANGED <<waits, acc_next, ncmds>>
HostVars == <<phase, poll_i, block, ret>>

\* the server accepts a peer: a new active connection, about to handshake
Accept ==
  /\ phase = "pre" /\ is_server
  /\ Cardinality(DOMAIN connections) < MaxConns
  /\ LET i == Cardinality(DOMAIN connections) IN
     Commit([Cur EXCEPT !.connections =
               [j \in 0 .. i |-> IF j = i
                                 THEN [EmptyConnection EXCEPT !.active = TRUE, !.mode = "INIT"]
                                 ELSE connections[j]]])
  /\ UNCHANGED HostVars /\ Quiet

\* pre_frame: the slot of the frame about to run is made ready and the local
\* controller is captured into it
pre_frame(n) ==
  LET r == netplay_delta_frame_ready(n, n.self_ptr, n.self_frame_count)
  IN [r EXCEPT !.buffer[n.self_ptr].self_state = LocalInput,
               !.buffer[n.self_ptr].have_local = TRUE]

PreFrame ==
  /\ phase = "pre"
  /\ Commit(pre_frame(Env({}, TRUE)))
  /\ phase' = "drain"
  /\ UNCHANGED <<poll_i, block, ret>> /\ Quiet

RECURSIVE ResimFrom(_, _, _)
\* the silent re-run of simulate and advance up to frame `target`; other_ptr
\* follows until the first frame whose inputs are not all real
ResimFrom(n, target, pinned) ==
  IF n.self_frame_count >= target THEN n
  ELSE
    LET d == n.buffer[n.self_ptr]
        real == /\ d.used /\ d.frame = n.self_frame_count
                /\ \A p \in n.connected_players : d.have_real[p]
        adv == ~pinned /\ real
    IN ResimFrom([n EXCEPT !.self_ptr = NEXT_PTR(@),
                           !.self_frame_count = @ + 1,
                           !.other_ptr = IF adv THEN NEXT_PTR(@) ELSE @,
                           !.other_frame_count = IF adv THEN @ + 1 ELSE @],
                 target, pinned \/ ~real)

\* the rewind of post_frame
Rewind(n) ==
  IF ~n.force_rewind THEN n
  ELSE [ResimFrom([n EXCEPT !.self_ptr = n.other_ptr,
                            !.self_frame_count = n.other_frame_count],
                  n.self_frame_count, FALSE)
        EXCEPT !.force_rewind = FALSE]

RECURSIVE EmitFrom(_, _)
\* the current frame's input goes out to every connected peer
EmitFrom(n, i) ==
  IF i >= ConnCount(n) THEN n
  ELSE LET cn == n.connections[i] IN
       EmitFrom(IF cn.active /\ IsConnected(cn.mode)
                THEN netplay_send_cur_input(n, i) ELSE n,
                i + 1)

\* the stall check after the drain: the session with unread brought up to
\* date, and whether the simulation is too far ahead of it
StallCheck == netplay_update_unread_ptr(Cur)
Stalled == StallCheck.unread_frame_count + delay_frames <= self_frame_count

\* simulate and post_frame: advance, emit, and rewind if asked to
post_frame(n) ==
  Rewind(EmitFrom([n EXCEPT !.self_ptr = NEXT_PTR(@), !.self_frame_count = @ + 1], 0))

\* post_frame while the sockets of one of the sets `fails` refuse data
PostFrameWith(fails) ==
  /\ phase = "check" /\ poll_i = -1 /\ ~Stalled
  /\ self_frame_count < MaxFrame
  /\ \E fail \in fails : Commit(post_frame([StallCheck EXCEPT !.fail = fail]))
  /\ phase' = "pre"
  /\ UNCHANGED <<poll_i, block, ret>> /\ Quiet

PostFrame == PostFrameWith(SUBSET DOMAIN connections)

(* ----------------------- netplay_poll_net_input ----------------------- *)
\* return from netplay_poll_net_input with value r, back in the host loop:
\* -1 ends the session, 0 leads to the stall check
Return(r) ==
  /\ ret' = r
  /\ poll_i' = -1
  /\ block' = FALSE
  /\ phase' = IF r = -1 THEN "dead" ELSE "check"

\* the head of the do loop, up to the first connection
PollLoop(n, b, cap) ==
  /\ n.timeout_cnt < cap
  /\ LET n1 == netplay_update_unread_ptr(
                 [n EXCEPT !.had_input = FALSE, !.timeout_cnt = @ + 1])
         r1 == netplay_delta_frame_ready(n1, n1.unread_ptr, n1.unread_frame_count)
         r2 == IF r1.ok /\ ~r1.is_server
               THEN netplay_delta_frame_ready(r1, r1.server_ptr, r1.server_frame_count)
               ELSE r1
     IN /\ Commit(r2)
        /\ IF r2.ok
           THEN poll_i' = 0 /\ block' = b /\ UNCHANGED <<phase, ret>>
           ELSE Return(0)

HasActive == \E i \in DOMAIN connections : connections[i].active

\* the call, from the drain (block = FALSE) or, when the stall check says so,
\* blocking
PollEnterUpTo(cap) ==
  /\ poll_i = -1
  /\ phase = "drain" \/ (phase = "check" /\ Stalled)
  /\ LET n == IF phase = "check" THEN StallCheck ELSE Cur IN
     IF ~HasActive
     THEN Commit(n) /\ Return(0)
     ELSE \E ser_ok \in BOOLEAN :
            PollLoop([n EXCEPT !.ser_ok = ser_ok], phase = "check", cap)
  /\ Quiet

PollEnter == PollEnterUpTo(MaxPolls)

InPoll(i) == poll_i = i /\ i \in DOMAIN connections

\* bookkeeping of one netplay_get_cmd call with result r on connection i; e is
\* the command it dispatched, NoEv if it did not get as far as a header
AfterCmd(r, i, e) ==
  /\ Commit(IF r.ok THEN r ELSE netplay_hangup(r, i))
  /\ poll_i' = i + 1
  /\ phase' = IF r.hung THEN "hung" ELSE phase
  /\ UNCHANGED <<block, ret>>
  /\ ev' = e
  /\ waits' = IF e # NoEv THEN 0 ELSE waits
  /\ ncmds' = IF e # NoEv THEN ncmds + 1 ELSE ncmds
  /\ acc_next' = IF r.got = <<>> THEN acc_next
                 ELSE [acc_next EXCEPT ![r.got[1]] =
                         IF @ = r.got[2] THEN @ + 1 ELSE -1]

\* the loop passes over an inactive connection
PollSkip ==
  \E i \in DOMAIN connections :
    /\ InPoll(i) /\ ~connections[i].active
    /\ Commit(Cur) /\ poll_i' = i + 1
    /\ UNCHANGED <<phase, block, ret>> /\ Quiet

\* netplay_get_cmd on a connection in the handshake: the handshake completes,
\* the connection becomes a spectator (the client may see the server as a
\* player) and the current input is sent to it at once
PollHandshake ==
  \E i \in DOMAIN connections :
    /\ InPoll(i) /\ connections[i].active /\ connections[i].mode = "INIT"
    /\ \E fail \in SUBSET DOMAIN connections,
          mode \in IF is_server THEN {"SPECTATING"} ELSE {"SPECTATING", "PLAYING"} :
         LET n == Env(fail, TRUE)
             n1 == [n EXCEPT !.connections[i].mode = mode,
                             !.self_mode = IF n.is_server THEN @ ELSE "SPECTATING",
                             !.had_input = TRUE]
         IN AfterCmd(netplay_send_cur_input(n1, i), i, NoEv)

\* a short read at the header: nothing to do
PollNoData ==
  \E i \in DOMAIN connections :
    /\ InPoll(i) /\ connections[i].active
    /\ AfterCmd(CmdShort(Cur), i, NoEv)

\* the socket fails under the header: netplay_get_cmd returns false
PollRecvError ==
  \E i \in DOMAIN connections :
    /\ InPoll(i) /\ connections[i].active
    /\ \E fail \in SUBSET DOMAIN connections :
         AfterCmd([Env(fail, TRUE) EXCEPT !.ok = FALSE], i, NoEv)

\* a command whose header has arrived
PollCmdOf(msgs, cap) ==
  \E i \in DOMAIN connections :
    /\ InPoll(i) /\ connections[i].active /\ IsConnected(connections[i].mode)
    /\ ncmds < cap
    /\ \E m \in msgs, fail \in SUBSET DOMAIN connections :
         \E ser_ok \in (IF m.cmd = "INPUT" THEN BOOLEAN ELSE {TRUE}) :
           AfterCmd(netplay_get_cmd(Env(fail, ser_ok), i, m), i, Ev(i, m))

PollCmd == PollCmdOf(IF is_server THEN ServerMsgs ELSE ClientMsgs, MaxCmds)

AtTail == poll_i >= 0 /\ poll_i = Cardinality(DOMAIN connections)
\* the session at the tail of the loop body: unread is recomputed when blocking
LoopEnd == IF block THEN netplay_update_unread_ptr([Cur EXCEPT !.sent = <<>>]) ELSE Cur
Waiting == block /\ LoopEnd.unread_frame_count <= self_frame_count /\ ~had_input

\* blocking, and this frame's input is there
PollGotInput ==
  /\ AtTail /\ block /\ LoopEnd.unread_frame_count > self_frame_count
  /\ Commit(LoopEnd) /\ Return(0) /\ Quiet

\* socket_select fails
PollSelectError ==
  /\ AtTail /\ Waiting
  /\ Commit(LoopEnd) /\ Return(-1) /\ Quiet

\* the wait was the last one allowed
PollStallFatal ==
  /\ AtTail /\ Waiting
  /\ timeout_cnt >= MAX_RETRIES /\ ~remote_paused
  /\ Commit(LoopEnd) /\ Return(-1)
  /\ waits' = waits + 1 /\ ev' = NoEv /\ UNCHANGED <<acc_next, ncmds>>

\* round the loop again, after the wait if there was one
PollAgainUpTo(cap) ==
  /\ AtTail /\ (had_input \/ block)
  /\ ~(block /\ LoopEnd.unread_frame_count > self_frame_count)
  /\ ~(Waiting /\ timeout_cnt >= MAX_RETRIES /\ ~remote_paused)
  /\ \E ser_ok \in BOOLEAN : PollLoop([LoopEnd EXCEPT !.ser_ok = ser_ok], block, cap)
  /\ waits' = IF Waiting THEN waits + 1 ELSE waits
  /\ ev' = NoEv /\ UNCHANGED <<acc_next, ncmds>>

PollAgain == PollAgainUpTo(MaxPolls)

\* not blocking and nothing came: done
PollDone ==
  /\ AtTail /\ ~had_input /\ ~block
  /\ Commit(Cur) /\ Return(0) /\ Quiet

Next ==
  \/ Accept
  \/ PreFrame
  \/ PollEnter
  \/ PollSkip
  \/ PollHandshake
  \/ PollNoData
  \/ PollRecvError
  \/ PollCmd
  \/ PollGotInput
  \/ PollSelectError
  \/ PollAgain
  \/ PollDone
  \/ PostFrame

Spec == Init /\ [][Next]_vars

\* the stalled session: few kinds of command, and polls followed up to the
\* fatal wait and beyond
PollEnterStall == PollEnterUpTo(MAX_RETRIES + MaxExtraWaits)
PollCmdStall == PollCmdOf(StallMsgs, MaxCmds)
PollAgainStall == PollAgainUpTo(MAX_RETRIES + MaxExtraWaits)

NextStall ==
  \/ Accept
  \/ PreFrame
  \/ PollEnterStall
  \/ PollSkip
  \/ PollHandshake
  \/ PollNoData
  \/ PollRecvError
  \/ PollCmdStall
  \/ PollGotInput
  \/ PollSelectError
  \/ PollStallFatal
  \/ PollAgainStall
  \/ PollDone
  \/ PostFrame

SpecStall == Init /\ [][NextStall]_vars

\* the session of players joining and leaving: only requests to play, to
\* spectate and to leave, and input, but more of them
PollCmdJoin == PollCmdOf(JoinMsgs, MaxJoinCmds)

NextJoin ==
  \/ Accept
  \/ PreFrame
  \/ PollEnter
  \/ PollSkip
  \/ PollHandshake
  \/ PollNoData
  \/ PollRecvError
  \/ PollCmdJoin
  \/ PollGotInput
  \/ PollSelectError
  \/ PollAgain
  \/ PollDone
  \/ PostFrame

SpecJoin == Init /\ [][NextJoin]_vars

\* the session in which peers break the protocol
PollCmdProto == PollCmdOf(ProtoMsgs, MaxCmds)

NextProto ==
  \/ Accept
  \/ PreFrame
  \/ PollEnter
  \/ PollSkip
  \/ PollHandshake
  \/ PollNoData
  \/ PollRecvError
  \/ PollCmdProto
  \/ PollGotInput
  \/ PollSelectError
  \/ PollAgain
  \/ PollDone
  \/ PostFrame

SpecProto == Init /\ [][NextProto]_vars

\* the session whose state is audited: checksums, and the states sent to
\* repair a difference, some with a header that announces too few bytes, next
\* to the frames of a spectating server
AuditMsgs ==
  CrcMsgs \cup ShortLoadMsgs \cup NoinputMsgs({0, 1})
  \cup { M("LOAD_SAVESTATE", 8 + 1, f, state_size, ZeroInput, "full") : f \in {0, 1} }
PollCmdAudit == PollCmdOf(AuditMsgs, MaxCmds)

NextAudit ==
  \/ Accept
  \/ PreFrame
  \/ PollEnter
  \/ PollSkip
  \/ PollHandshake
  \/ PollNoData
  \/ PollRecvError
  \/ PollCmdAudit
  \/ PollGotInput
  \/ PollSelectError
  \/ PollAgain
  \/ PollDone
  \/ PostFrame

SpecAudit == Init /\ [][NextAudit]_vars

\* the session with a pausing peer, polls followed up to the fatal wait and
\* beyond
PollCmdPause == PollCmdOf(PauseMsgs, MaxPauseCmds)

NextPause ==
  \/ Accept
  \/ PreFrame
  \/ PollEnterStall
  \/ PollSkip
  \/ PollHandshake
  \/ PollNoData
  \/ PollRecvError
  \/ PollCmdPause
  \/ PollGotInput
  \/ PollSelectError
  \/ PollStallFatal
  \/ PollAgainStall
  \/ PollDone
  \/ PostFrame

SpecPause == Init /\ [][NextPause]_vars

\* the stalled session with a command held up on the way: its header has
\* arrived and is read again in every round of a blocking poll, the payload
\* never comes
HeldMsgs == { m \in PartialMsgs : m.cmd = "NOINPUT" /\ m.avail = "header" }

\* netplay_get_cmd on the held command: not a new command, and no end to the
\* waits in a row
PollHeld ==
  \E i \in DOMAIN connections :
    /\ InPoll(i) /\ connections[i].active /\ IsConnected(connections[i].mode)
    /\ block
    /\ \E m \in HeldMsgs :
         LET r == netplay_get_cmd(Env({}, TRUE), i, m) IN
         /\ Commit(IF r.ok THEN r ELSE netplay_hangup(r, i))
         /\ ev' = Ev(i, m)
    /\ poll_i' = i + 1
    /\ UNCHANGED <<phase, block, ret, waits, acc_next, ncmds>>

\* the loop is followed for as many waits as the fatal one and beyond
PollAgainHeld ==
  /\ waits < MAX_RETRIES + MaxExtraWaits
  /\ PollAgainUpTo(MAX_RETRIES + MaxExtraWaits)

NextHeld ==
  \/ Accept
  \/ PreFrame
  \/ PollEnterStall
  \/ PollSkip
  \/ PollHandshake
  \/ PollNoData
  \/ PollRecvError
  \/ PollCmdStall
  \/ PollHeld
  \/ PollGotInput
  \/ PollSelectError
  \/ PollStallFatal
  \/ PollAgainHeld
  \/ PollDone
  \/ PostFrame

SpecHeld == Init /\ [][NextHeld]_vars

(* --------------------- a server and its client ------------------------ *)
\* The server's first connection with a client at its far end: what either
\* side sends reaches the other in the order it was sent, nothing is lost and
\* no socket fails.

\* the server accepts its one peer
LinkAccept == DOMAIN connections = {} /\ Accept

\* the handshake completes on both sides: the client is a spectator synced to
\* the server's frame that expects the server's input, its first frame about
\* to run, and the server's current input is on its way
PollHandshakeLink ==
  /\ InPoll(0) /\ connections[0].active /\ connections[0].mode = "INIT"
  /\ LET n == Env({}, TRUE)
         client == pre_frame(SyncedClient(n.self_frame_count,
                                          n.connected_players \cup {n.self_player}))
         n1 == [n EXCEPT !.connections[0].mode = "SPECTATING",
                         !.had_input = TRUE,
                         !.peer = [NoPeer EXCEPT !.attached = TRUE, !.n = client]]
     IN AfterCmd(netplay_send_cur_input(n1, 0), 0, NoEv)

\* nothing has arrived yet; a blocking poll waits until something has
PollNoDataLink ==
  /\ InPoll(0) /\ connections[0].active /\ ~block
  /\ AfterCmd(CmdShort(Cur), 0, NoEv)

\* netplay_get_cmd on the command that arrives next
PollCmdLink ==
  /\ InPoll(0) /\ connections[0].active /\ IsConnected(connections[0].mode)
  /\ peer.attached /\ peer.c2s # <<>>
  /\ LET m == Head(peer.c2s) IN
     AfterCmd(netplay_get_cmd([Env({}, TRUE) EXCEPT !.peer.c2s = Tail(@)], 0, m),
              0, Ev(0, m))

\* a step of the client: the server's session stays as it is, the client's
\* becomes n, what n sent is on its way to the server
ClientStep(n, s2c, cmd, asked) ==
  /\ Commit([Cur EXCEPT !.peer =
               [ attached |-> TRUE,
                 n |-> [n EXCEPT !.sent = <<>>, !.got = <<>>, !.ok = TRUE,
                                 !.timeout_cnt = 0, !.had_input = FALSE],
                 c2s |-> peer.c2s \o WireAll(n.sent, 0),
                 s2c |-> s2c, cmd |-> cmd, asked |-> asked ]])
  /\ UNCHANGED HostVars /\ Quiet

ClientRuns ==
  peer.attached /\ peer.n.connections[0].active /\ ~peer.n.hung

\* netplay_cmd_mode(PLAYING): the client asks to play
ClientPlay ==
  /\ ClientRuns /\ ~peer.asked /\ peer.n.self_mode = "SPECTATING"
  /\ ClientStep(netplay_send_raw_cmd(peer.n, 0, "PLAY", <<>>), peer.s2c, NoEv.m, TRUE)

\* a round of the client's netplay_poll_net_input in which the next command
\* of the server has arrived
ClientCmd ==
  /\ ClientRuns /\ peer.s2c # <<>>
  /\ LET m == Head(peer.s2c)
         n1 == netplay_update_unread_ptr(peer.n)
         r1 == netplay_delta_frame_ready(n1, n1.unread_ptr, n1.unread_frame_count)
         r2 == netplay_delta_frame_ready(r1, r1.server_ptr, r1.server_frame_count)
         r == netplay_get_cmd(r2, 0, m)
     IN ClientStep(IF r.ok THEN r ELSE netplay_hangup(r, 0),
                   Tail(peer.s2c), m, peer.asked)

\* the client's post_frame, when it is not stalled, and the pre_frame of its
\* next frame; the client is followed one frame further than the server, so
\* that it sends input beyond the frames it was granted
ClientFrame ==
  /\ ClientRuns
  /\ LET n == netplay_update_unread_ptr(peer.n) IN
     /\ ~(n.unread_frame_count + delay_frames <= n.self_frame_count)
     /\ n.self_frame_count < MaxFrame + 1
     /\ ClientStep(pre_frame(post_frame(n)), peer.s2c, NoEv.m, peer.asked)

PostFrameLink == PostFrameWith({{}})

InitLink == Init /\ is_server

NextLink ==
  \/ LinkAccept
  \/ PreFrame
  \/ PollEnterStall
  \/ PollHandshakeLink
  \/ PollNoDataLink
  \/ PollCmdLink
  \/ PollGotInput
  \/ PollAgainStall
  \/ PollDone
  \/ PostFrameLink
  \/ ClientPlay
  \/ ClientCmd
  \/ ClientFrame

SpecLink == InitLink /\ [][NextLink]_vars

(* ------------------------- simulation alone --------------------------- *)
\* netplay_simulate_input applied to rings as a running session leaves them:
\* every slot in use, real inputs that differ from slot to slot, predictions
\* made earlier from inputs since overtaken

\* word 0 of a controller state: a button, a direction, or both held
SimWords ==
  { JoypadBit(RETRO_DEVICE_ID_JOYPAD_B),
    JoypadBit(RETRO_DEVICE_ID_JOYPAD_UP),
    JoypadBit(RETRO_DEVICE_ID_JOYPAD_B) + JoypadBit(RETRO_DEVICE_ID_JOYPAD_UP) }

InitSim ==
  /\ is_server \in BOOLEAN
  /\ self_mode = "PLAYING"
  /\ self_player = 0
  /\ connected_players \in SUBSET Players
  /\ connections = [i \in {0} |-> [EmptyConnection EXCEPT !.active = TRUE,
                                                         !.mode = "PLAYING"]]
  /\ \E real \in [Slots -> SimWords], sim \in SimWords, have \in {{}, {0}} :
       buffer = [s \in Slots |->
                  [EmptyFrame EXCEPT
                     !.used = TRUE, !.frame = s, !.state = "saved",
                     !.have_real = [p \in Players |-> p \in have],
                     !.real_input_state = [p \in Players |-> <<real[s], p + 1, 0>>],
                     !.simulated_input_state = [p \in Players |-> <<sim, 0, 0>>]]]
  /\ self_ptr = 0 /\ self_frame_count = buffer_size
  /\ other_ptr = 0 /\ other_frame_count = buffer_size
  /\ unread_ptr = 0 /\ unread_frame_count = buffer_size
  /\ server_ptr = 0 /\ server_frame_count = buffer_size
  /\ \E r \in Slots : read_ptr = [p \in Players |-> r]
  /\ read_frame_count = [p \in Players |-> buffer_size]
  /\ force_rewind = FALSE
  /\ remote_paused = FALSE
  /\ flip = FALSE /\ flip_frame = 0
  /\ savestate_request_outstanding = FALSE
  /\ force_send_savestate = FALSE
  /\ timeout_cnt = 0
  /\ phase = "sim"
  /\ poll_i = -1
  /\ block = FALSE
  /\ had_input = FALSE
  /\ ret = 0
  /\ sent = <<>>
  /\ got = <<>>
  /\ ev = NoEv
  /\ waits = 0
  /\ acc_next = [p \in Players |-> 0]
  /\ ncmds = 0
  /\ peer = NoPeer

\* one call of netplay_simulate_input; ev records the call: the slot in c,
\* "SIMULATE" or "RESIMULATE" as the command
SimCall(resim) ==
  /\ ncmds < MaxSims
  /\ \E sim_ptr \in Slots :
       /\ Commit(netplay_simulate_input(Cur, sim_ptr, resim))
       /\ ev' = Ev(sim_ptr, M(IF resim THEN "RESIMULATE" ELSE "SIMULATE", 0, 0,
                             InputWord(0, FALSE), ZeroInput, "full"))
  /\ ncmds' = ncmds + 1
  /\ UNCHANGED <<phase, poll_i, block, ret, waits, acc_next>>

\* the first simulation of a frame
Simulate == SimCall(FALSE)
\* the simulation of a frame gone through again after a rewind
Resimulate == SimCall(TRUE)

NextSim ==
  \/ Simulate
  \/ Resimulate

SpecSim == InitSim /\ [][NextSim]_vars

(* ----------------------- current input alone -------------------------- *)
\* netplay_send_cur_input called on sessions as the handshakes and mode
\* changes leave them: either role, playing or not, connections that play
\* or watch, the current slot holding real input of some players

InitSend ==
  /\ is_server \in BOOLEAN
  /\ self_mode \in {"PLAYING", "SPECTATING"}
  /\ self_player \in Players
  /\ connected_players \in SUBSET Players
  /\ self_mode = "PLAYING" => self_player \notin connected_players
  /\ connections \in [ (IF is_server THEN 0 .. MaxConns - 1 ELSE {0}) ->
                        { [EmptyConnection EXCEPT !.active = TRUE, !.mode = m,
                                                  !.player = p] :
                            m \in {"PLAYING", "SPECTATING"}, p \in Players } ]
  /\ is_server =>
       /\ \A i \in DOMAIN connections :
            connections[i].mode = "PLAYING" =>
              connections[i].player \in connected_players
       /\ \A i, j \in DOMAIN connections :
            (i # j /\ connections[i].mode = "PLAYING" /\ connections[j].mode = "PLAYING")
              => connections[i].player # connections[j].player
  /\ \E have \in SUBSET Players :
       buffer = [s \in Slots |->
                  IF s = 1
                  THEN [EmptyFrame EXCEPT
                          !.used = TRUE, !.frame = 1, !.state = "saved",
                          !.have_real = [p \in Players |-> p \in have],
                          !.real_input_state =
                             [p \in Players |-> IF p \in have THEN InputOf(p + 1)
                                                ELSE ZeroInput],
                          !.self_state = LocalInput, !.have_local = TRUE]
                  ELSE EmptyFrame]
  /\ self_ptr = 1 /\ self_frame_count = 1
  /\ other_ptr = 1 /\ other_frame_count = 1
  /\ unread_ptr = 1 /\ unread_frame_count = 1
  /\ server_ptr = 1 /\ server_frame_count = 1
  /\ read_ptr = [p \in Players |-> 1]
  /\ read_frame_count = [p \in Players |-> 1]
  /\ force_rewind = FALSE
  /\ remote_paused = FALSE
  /\ flip = FALSE /\ flip_frame = 0
  /\ savestate_request_outstanding = FALSE
  /\ force_send_savestate = FALSE
  /\ timeout_cnt = 0
  /\ phase = "send"
  /\ poll_i = -1
  /\ block = FALSE
  /\ had_input = FALSE
  /\ ret = 0
  /\ sent = <<>>
  /\ got = <<>>
  /\ ev = NoEv
  /\ waits = 0
  /\ acc_next = [p \in Players |-> 0]
  /\ ncmds = 0
  /\ peer = NoPeer

\* one call of netplay_send_cur_input on an active connection; ev records
\* the call and ret its return value (1 for true)
SendCurInput ==
  /\ ncmds < MaxSends
  /\ \E c \in DOMAIN connections, fail \in SUBSET DOMAIN connections :
       /\ connections[c].active
       /\ LET r == netplay_send_cur_input(Env(fail, TRUE), c)
          IN Commit(r) /\ ret' = IF r.ok THEN 1 ELSE 0
       /\ ev' = Ev(c, M("SEND_CUR_INPUT", 0, 0, InputWord(0, FALSE), ZeroInput, "full"))
  /\ ncmds' = ncmds + 1
  /\ UNCHANGED <<phase, poll_i, block, waits, acc_next>>

NextSend ==
  \/ SendCurInput

SpecSend == InitSend /\ [][NextSend]_vars

(* ------------------------------ properties ---------------------------- *)
\* the state of the session proper
SessionVars ==
  << is_server, self_mode, self_player, connected_players, connections,
     buffer, self_ptr, self_frame_count, other_ptr, other_frame_count,
     unread_ptr, unread_frame_count, server_ptr, server_frame_count,
     read_ptr, read_frame_count, force_rewind, remote_paused,
     flip, flip_frame, savestate_request_outstanding, force_send_savestate >>

\* the player an INPUT e is for, in the state it arrives in
InputPlayerOf(e) ==
  IF is_server THEN connections[e.c].player ELSE InputWordPlayer(e.m.b)

\* e is a whole INPUT of the right size for a connected player
InputArrives(e) ==
  /\ e.m.cmd = "INPUT" /\ e.m.avail = "full"
  /\ e.m.cmd_size = WORDS_PER_FRAME * 4
  /\ is_server => connections[e.c].mode = "PLAYING"
  /\ InputPlayerOf(e) \in connected_players

\* connections that are active now and not after the step
Dropped == { j \in DOMAIN connections : connections[j].active /\ ~connections'[j].active }

\* a MODE went out (or was tried) to connection j in this step
ModeTriedTo(j) == \E k \in DOMAIN sent' : sent'[k].to = j /\ sent'[k].cmd = "MODE"

\* e is a whole MODE from the server saying that somebody else now plays
ModeJoins(e) ==
  /\ ~is_server /\ e.m.cmd = "MODE" /\ e.m.avail = "full" /\ e.m.cmd_size = 8
  /\ ModeWordPlayer(e.m.b) < MAX_USERS
  /\ BitSet(e.m.b, NETPLAY_CMD_MODE_BIT_PLAYING)
  /\ ~BitSet(e.m.b, NETPLAY_CMD_MODE_BIT_YOU)
  /\ e.m.a = server_frame_count

C2_AllUnchanged ==
  [][ (InputArrives(ev') /\ ev'.m.a < read_frame_count[InputPlayerOf(ev')]) =>
        /\ UNCHANGED SessionVars
        /\ timeout_cnt' = timeout_cnt
        /\ sent' = <<>> ]_vars

\* C2 (amended): a duplicate INPUT leaves the session as it was and nothing is
\* sent, except that, as for every command received, the timeout counter is
\* reset to 0 and the poll is told that there was input
C2_Duplicate ==
  [][ (InputArrives(ev') /\ ev'.m.a < read_frame_count[InputPlayerOf(ev')]) =>
        /\ UNCHANGED SessionVars
        /\ timeout_cnt' = 0 /\ had_input'
        /\ got' = <<>> /\ sent' = <<>> ]_vars

\* a duplicate INPUT has just been dropped
C2_Witness ==
  /\ ev.m.cmd = "INPUT" /\ ev.m.avail = "full" /\ ev.m.cmd_size = WORDS_PER_FRAME * 4
  /\ connections[ev.c].active
  /\ InputPlayerOf(ev) \in connected_players
  /\ ev.m.a < read_frame_count[InputPlayerOf(ev)]
  /\ got = <<>> /\ sent = <<>> /\ timeout_cnt = 0

\* C3 (as claimed): an out-of-order INPUT is NAKed, exactly the sender's
\* connection is dropped, and no player's read pointer, counter or real input
\* changes
C3_ExactlyOne ==
  [][ (InputArrives(ev') /\ ev'.m.a > read_frame_count[InputPlayerOf(ev')]) =>
        /\ sent' # <<>> /\ sent'[1] = Msg(ev'.c, "NAK", <<>>)
        /\ Dropped = {ev'.c}
        /\ UNCHANGED <<read_ptr, read_frame_count, buffer>> ]_vars

\* C3 (amended): an out-of-order INPUT is NAKed and the sender's connection is
\* dropped; another connection is dropped in the same step only if the MODE that
\* tells it of the sender's departure is sent to it (and fails); no player's
\* read pointer, counter or real input changes
C3_OutOfOrder ==
  [][ (InputArrives(ev') /\ ev'.m.a > read_frame_count[InputPlayerOf(ev')]) =>
        /\ sent' # <<>> /\ sent'[1] = Msg(ev'.c, "NAK", <<>>)
        /\ ev'.c \in Dropped
        /\ \A j \in Dropped \ {ev'.c} : is_server /\ ModeTriedTo(j)
        /\ UNCHANGED <<read_ptr, read_frame_count, buffer>> ]_vars

\* on a server an out-of-order INPUT has just been NAKed and its sender dropped,
\* and with it a peer that could not be told
C3_Witness ==
  /\ is_server
  /\ ev.m.cmd = "INPUT" /\ ev.m.avail = "full" /\ ev.m.cmd_size = WORDS_PER_FRAME * 4
  /\ connections[ev.c].mode = "PLAYING"
  /\ ev.m.a > read_frame_count[connections[ev.c].player]
  /\ sent # <<>> /\ sent[1] = Msg(ev.c, "NAK", <<>>)
  /\ ~connections[ev.c].active
  /\ \E j \in DOMAIN connections \ {ev.c} :
       /\ ~connections[j].active
       /\ \E k \in DOMAIN sent : sent[k].to = j /\ sent[k].cmd = "MODE"

\* C4 (as claimed): other_frame_count never exceeds self_frame_count
C4_OtherBehind == other_frame_count <= self_frame_count

\* C4 (amended): other_frame_count exceeds self_frame_count only by one, and
\* only while a rewind is pending after a LOAD_SAVESTATE for a frame ahead
C4_OtherBehindOrPending ==
  \/ other_frame_count <= self_frame_count
  \/ (force_rewind /\ other_frame_count = self_frame_count + 1
        /\ other_ptr = NEXT_PTR(self_ptr))

\* a LOAD_SAVESTATE for a frame ahead has just moved the local frame
C4_Witness ==
  /\ ev.m.cmd = "LOAD_SAVESTATE" /\ force_rewind
  /\ other_frame_count = self_frame_count + 1

\* C5 (as claimed): for every connected player,
\* unread_frame_count <= read_frame_count[p] <= self_frame_count + 1
C5_Bracket ==
  \A p \in connected_players :
    /\ unread_frame_count <= read_frame_count[p]
    /\ read_frame_count[p] <= self_frame_count + 1

\* C5 (amended): at the head of a poll round, where unread has just been
\* recomputed, unread_frame_count <= read_frame_count[p] for every connected
\* player, and on a server it is the count of one of them
C5_UnreadIsLeast ==
  poll_i = 0 =>
    /\ \A p \in connected_players : unread_frame_count <= read_frame_count[p]
    /\ (is_server /\ connected_players # {}) =>
         \E p \in connected_players :
           unread_frame_count = read_frame_count[p] /\ unread_ptr = read_ptr[p]

\* at the head of a poll round a connected player has been read more than one
\* frame ahead of the local frame, another one less
C5_Witness ==
  /\ poll_i = 0
  /\ \E p \in connected_players : read_frame_count[p] > self_frame_count + 1

\* C6 (as claimed): on a client server_frame_count <= read_frame_count[p] for
\* every connected player
C6_ServerBehind ==
  ~is_server => \A p \in connected_players : server_frame_count <= read_frame_count[p]

\* C6 (amended): on a client server_frame_count equals read_frame_count[p]
\* right after an INPUT with the server bit is accepted for p, and
\* read_frame_count[p] is seeded with server_frame_count when MODE says that p
\* now plays
C6_ServerMeetsReader ==
  [][ /\ (~is_server /\ got' # <<>> /\ InputWordServer(ev'.m.b)) =>
           /\ server_frame_count' = read_frame_count'[got'[1]]
           /\ server_ptr' = read_ptr'[got'[1]]
      /\ ModeJoins(ev') =>
           LET p == ModeWordPlayer(ev'.m.b) IN
           /\ p \in connected_players'
           /\ read_frame_count'[p] = server_frame_count'
           /\ read_ptr'[p] = server_ptr' ]_vars

\* on a client a NOINPUT has just taken server_frame_count past a connected
\* player's read_frame_count
C6_Witness ==
  /\ ~is_server /\ ev.m.cmd = "NOINPUT"
  /\ \E p \in connected_players : server_frame_count > read_frame_count[p]

\* C7 (as claimed): no step lowers a player's read_frame_count
C7_NeverLower ==
  [][ \A p \in Players : read_frame_count'[p] >= read_frame_count[p] ]_vars

\* C7 (amended): read_frame_count[p] is lowered only by a seeding, PLAY on a
\* server (to self_frame_count + 1) or MODE saying that p plays on a client (to
\* server_frame_count); every accepted INPUT raises it by one
C7_LoweredBySeedOnly ==
  [][ /\ \A p \in Players :
           read_frame_count'[p] < read_frame_count[p] =>
             \/ /\ is_server /\ ev'.m.cmd = "PLAY"
                /\ read_frame_count'[p] = self_frame_count + 1
             \/ /\ ModeJoins(ev') /\ p = ModeWordPlayer(ev'.m.b)
                /\ read_frame_count'[p] = server_frame_count
      /\ got' # <<>> => read_frame_count'[got'[1]] = read_frame_count[got'[1]] + 1 ]_vars

\* a player's read_frame_count is below the number of frames already accepted
\* for that player
C7_Witness ==
  \E p \in Players : acc_next[p] > read_frame_count[p]

C9_RealOnce ==
  [][ ev'.m.cmd \in {"INPUT", "MODE"} =>
        \A s \in Slots, p \in Players :
          ( /\ buffer[s].used /\ buffer'[s].used
            /\ buffer'[s].frame = buffer[s].frame
            /\ buffer[s].have_real[p] ) =>
            /\ buffer'[s].have_real[p]
            /\ buffer'[s].real_input_state[p] = buffer[s].real_input_state[p] ]_vars

\* C10: the blocking poll on a live connection gives up only after MAX_RETRIES
\* waits in a row without a command, and never while a peer has paused
C10_FatalAfterMaxRetries ==
  [][ (PollStallFatal /\ HasActive) =>
        (waits' >= MAX_RETRIES /\ ~remote_paused) ]_vars

\* an active connection whose peer has paused and not resumed
PeerPaused == \E i \in DOMAIN connections : connections[i].active /\ connections[i].paused

\* C11: while a peer is paused the blocking poll never gives up, however many
\* waits go by; and whenever the blocking poll finds this frame's input at the
\* end of a round (after RESUME as at any time) it returns success
C11_PausedWaitsAndRecovers ==
  [][ /\ PeerPaused => ~(ret' = -1 /\ waits' > waits)
      /\ (AtTail /\ block /\ LoopEnd.unread_frame_count > self_frame_count) =>
           (ret' = 0 /\ phase' = "check" /\ poll_i' = -1) ]_vars

\* a stalled server has waited for a paused peer more often than MAX_RETRIES
\* allows and is still in the blocking poll
C11_Witness ==
  /\ is_server /\ block /\ phase = "check" /\ poll_i >= 0
  /\ PeerPaused /\ waits > MAX_RETRIES

\* C12: the session is remote_paused exactly when an active connection is paused
C12_PausedIffPeerPaused == remote_paused <=> PeerPaused

\* C13 (as claimed): a connection that is terminated ends in mode NONE, and
\* its player, if it was playing, is no longer connected
C13_EndsInNone ==
  [][ \A j \in Dropped :
        /\ connections'[j].mode = "NONE"
        /\ connections[j].mode = "PLAYING" =>
             connections[j].player \notin connected_players' ]_vars

\* C13 (amended): a connection that is terminated is marked inactive and keeps
\* the mode it had (never NONE; the command that ended it may have changed the
\* mode first); on a server its player, if it was playing, is no longer
\* connected, and on a client nobody is and self_mode is NONE
C13_EndsInactive ==
  [][ \A j \in Dropped :
        /\ ~connections'[j].active
        /\ connections'[j].mode # "NONE"
        /\ \/ connections'[j].mode = connections[j].mode
           \/ connections[j].mode = "INIT"
           \/ j = ev'.c /\ ev'.m.cmd \in {"SPECTATE", "PLAY"}
        /\ (is_server /\ connections[j].mode = "PLAYING") =>
             connections[j].player \notin connected_players'
        /\ ~is_server => (connected_players' = {} /\ self_mode' = "NONE") ]_vars

\* on a server a playing peer has just been terminated by a NAK or a
\* DISCONNECT it sent: its connection is inactive, still in mode PLAYING, and
\* its player is gone
C13_Witness ==
  /\ is_server /\ ev.m.cmd \in {"NAK", "DISCONNECT"}
  /\ ~connections[ev.c].active /\ connections[ev.c].mode = "PLAYING"
  /\ connections[ev.c].player \notin connected_players

\* C14: once every connection has been hung up during a poll, the poll does
\* not give up with the stall error; a client that loses its connection ends
\* with self_mode NONE and nobody connected
C14_HangupNotFatal ==
  [][ /\ (poll_i >= 0 /\ ~HasActive) => ~(ret' = -1 /\ waits' > waits)
      /\ (~is_server /\ Dropped # {}) =>
           (self_mode' = "NONE" /\ connected_players' = {}) ]_vars

\* e breaks the protocol: a payload of the wrong size, a command for the other
\* role, or an unknown command
ProtocolViolation(e) ==
  \/ e.m.cmd = "INPUT" /\ e.m.cmd_size # WORDS_PER_FRAME * 4
  \/ e.m.cmd = "FLIP_PLAYERS" /\ e.m.cmd_size # 4
  \/ e.m.cmd = "MODE" /\ e.m.cmd_size # 8
  \/ e.m.cmd = "CRC" /\ e.m.cmd_size # 8
  \/ ~is_server /\ e.m.cmd \in {"SPECTATE", "PLAY"}
  \/ is_server /\ e.m.cmd \in {"NOINPUT", "FLIP_PLAYERS", "MODE"} /\ e.m.avail = "full"
  \/ /\ is_server /\ e.m.cmd = "INPUT" /\ e.m.avail = "full"
     /\ connections[e.c].mode # "PLAYING"
  \/ e.m.cmd = "UNKNOWN"

\* C15 (as claimed): a protocol violation is NAKed, the offender and nobody
\* else is disconnected, and every other connection stays as it was
C15_OnlyOffender ==
  [][ ProtocolViolation(ev') =>
        /\ sent' # <<>> /\ sent'[1] = Msg(ev'.c, "NAK", <<>>)
        /\ Dropped = {ev'.c}
        /\ \A j \in DOMAIN connections \ {ev'.c} : connections'[j] = connections[j] ]_vars

\* C15 (amended): a protocol violation is NAKed and the offender is
\* disconnected; another connection is disconnected in the same step only on a
\* server, when the MODE that tells it of the offender's departure is sent to it
\* (and fails); every connection keeps its mode, and one that is not dropped
\* stays as it was
C15_Violation ==
  [][ ProtocolViolation(ev') =>
        /\ sent' # <<>> /\ sent'[1] = Msg(ev'.c, "NAK", <<>>)
        /\ ev'.c \in Dropped
        /\ \A j \in Dropped \ {ev'.c} : is_server /\ ModeTriedTo(j)
        /\ \A j \in DOMAIN connections :
             /\ connections'[j].mode = connections[j].mode
             /\ j \notin Dropped => connections'[j] = connections[j] ]_vars

\* on a server a playing peer has sent a command meant for clients or an
\* unknown one: it was NAKed and dropped, and with it a peer that could not be
\* told
C15_Witness ==
  /\ is_server /\ ev.m.cmd \in {"NOINPUT", "FLIP_PLAYERS", "MODE", "UNKNOWN"}
  /\ sent # <<>> /\ sent[1] = Msg(ev.c, "NAK", <<>>)
  /\ ~connections[ev.c].active /\ connections[ev.c].mode = "PLAYING"
  /\ \E j \in DOMAIN connections \ {ev.c} :
       /\ ~connections[j].active
       /\ \E k \in DOMAIN sent : sent[k].to = j /\ sent[k].cmd = "MODE"

\* C16: a PLAY that finds no free player slot on the server is NAKed, and the
\* peer that asked stays connected as it was, with the same players connected
C16_PlayRejectedStays ==
  [][ (is_server /\ ev'.m.cmd = "PLAY" /\ FreePlayer(Cur) = MAX_USERS) =>
        /\ sent' # <<>> /\ sent'[1] = Msg(ev'.c, "NAK", <<>>)
        /\ connections'[ev'.c] = connections[ev'.c]
        /\ connected_players' = connected_players ]_vars


\* a read that came up short: at the header (nothing dispatched), or at a
\* payload field of the command ev' (the connection is kept, not refused)
ShortRead ==
  \/ PollNoData
  \/ /\ ev' # NoEv /\ ev'.m.avail \in {"header", "part1", "part2"}
     /\ poll_i \in DOMAIN connections /\ ev'.c = poll_i
     /\ connections[poll_i].active /\ connections'[poll_i].active

\* C17: command consumption is transactional: a read that comes up short, at
\* the header or at any payload field, changes no session state: no pointer,
\* counter, flag or ring slot, and not the timeout counter
C17_ShortReadChangesNothing ==
  [][ ShortRead => UNCHANGED <<SessionVars, timeout_cnt>> ]_vars


\* e is a whole MODE from the server saying that somebody else has stopped
\* playing: what the server's netplay_hangup broadcasts for a dropped player
ModeParts(e) ==
  /\ ~is_server /\ e.m.cmd = "MODE" /\ e.m.avail = "full" /\ e.m.cmd_size = 8
  /\ ModeWordPlayer(e.m.b) < MAX_USERS
  /\ ~BitSet(e.m.b, NETPLAY_CMD_MODE_BIT_PLAYING)
  /\ ~BitSet(e.m.b, NETPLAY_CMD_MODE_BIT_YOU)

\* C18 (as claimed): a client that receives the MODE(frame, p) the server
\* broadcasts for a dropped player p removes p from connected_players and
\* does not set force_rewind, whatever its own self_frame_count is
C18_PartsWithoutRewind ==
  [][ ModeParts(ev') =>
        /\ connected_players' = connected_players \ {ModeWordPlayer(ev'.m.b)}
        /\ force_rewind' = force_rewind ]_vars

\* C18 (amended): the client removes p from connected_players, and sets
\* force_rewind exactly when the frame named is behind its self_frame_count
C18_PartsRewindsIfPast ==
  [][ ModeParts(ev') =>
        /\ connected_players' = connected_players \ {ModeWordPlayer(ev'.m.b)}
        /\ force_rewind' = (force_rewind \/ ev'.m.a < self_frame_count) ]_vars

\* a client that had input from p has been told that p left at a frame
\* it has already run, and now rewinds
C18_Witness ==
  /\ ModeParts(ev) /\ ev.m.a < self_frame_count
  /\ ModeWordPlayer(ev.m.b) \notin connected_players
  /\ read_frame_count[ModeWordPlayer(ev.m.b)] > 0
  /\ connections[ev.c].active /\ force_rewind


\* C19: an accepted INPUT is applied to the connection's player on a server,
\* whatever player the wire names, and to the wire's player without the server
\* bit on a client; its input words are stored in the slot at read_ptr[player]
\* with have_real[player] set, read_ptr[player] moves to the next slot and
\* read_frame_count[player] up by one, no other player's read pointer or
\* counter changes, and a client moves server_ptr/server_frame_count to the
\* new read position if and only if the server bit was set
C19_AcceptedInputApplied ==
  [][ /\ (/\ InputArrives(ev')
          /\ ev'.m.a = read_frame_count[InputPlayerOf(ev')]
          /\ connections'[ev'.c].active) => got' # <<>>
      /\ got' # <<>> =>
        LET p == InputPlayerOf(ev')
            slot == read_ptr[p]
        IN
        /\ InputArrives(ev') /\ got'[1] = p
        /\ ev'.m.a = read_frame_count[p]
        /\ buffer'[slot].real_input_state[p] = ev'.m.state
        /\ buffer'[slot].have_real[p]
        /\ read_ptr'[p] = NEXT_PTR(slot)
        /\ read_frame_count'[p] = read_frame_count[p] + 1
        /\ \A q \in Players \ {p} :
             read_ptr'[q] = read_ptr[q] /\ read_frame_count'[q] = read_frame_count[q]
        /\ IF ~is_server /\ InputWordServer(ev'.m.b)
           THEN server_ptr' = read_ptr'[p] /\ server_frame_count' = read_frame_count'[p]
           ELSE UNCHANGED <<server_ptr, server_frame_count>> ]_vars

\* a server has accepted an INPUT whose wire player is not the connection's,
\* with input that is not all zero
C19_Witness ==
  /\ is_server /\ got # <<>>
  /\ ev.m.cmd = "INPUT" /\ ev.m.b = InputWord(MAX_USERS, TRUE)
  /\ ev.m.state # ZeroInput
  /\ connections[ev.c].mode = "PLAYING" /\ got[1] = connections[ev.c].player
  /\ read_frame_count[got[1]] = ev.m.a + 1
  /\ buffer[PREV_PTR(read_ptr[got[1]])].real_input_state[got[1]] = ev.m.state


\* the INPUT of ev' as the server relays it to connection j: frame, the
\* player it was accepted for without the server bit, and the input words
RelayedTo(j, k) ==
  /\ sent'[k].cmd = "INPUT" /\ sent'[k].to = j
  /\ sent'[k].payload = <<got'[2], InputWord(got'[1], FALSE)>> \o ev'.m.state

\* C20: on the server an accepted INPUT for player p and frame f is relayed at
\* receipt, as INPUT(f, p, state) without the server bit, to every connection
\* other than the sender that is active and connected, if and only if
\* f <= self_frame_count; no INPUT goes back to the sender
C20_RelayedIffNotFuture ==
  [][ (is_server /\ got' # <<>>) =>
        /\ \A k \in DOMAIN sent' :
             sent'[k].cmd = "INPUT" =>
               /\ got'[2] <= self_frame_count
               /\ sent'[k].to # ev'.c
               /\ connections[sent'[k].to].active
               /\ IsConnected(connections[sent'[k].to].mode)
               /\ RelayedTo(sent'[k].to, k)
        /\ \A j \in DOMAIN connections \ {ev'.c} :
             (/\ connections[j].active /\ IsConnected(connections[j].mode)
              /\ connections'[j].active
              /\ got'[2] <= self_frame_count)
               => \E k \in DOMAIN sent' : RelayedTo(j, k) ]_vars

\* a server has accepted an INPUT for a frame it has already run and relayed
\* it to its other peer, and nothing went to the sender
C20_Witness ==
  /\ is_server /\ got # <<>> /\ got[2] <= self_frame_count
  /\ ev.m.cmd = "INPUT" /\ ev.m.state # ZeroInput
  /\ \E j \in DOMAIN connections \ {ev.c} :
       /\ connections[j].active
       /\ \E k \in DOMAIN sent :
            sent[k] = Msg(j, "INPUT", <<got[2], InputWord(got[1], FALSE)>> \o ev.m.state)
  /\ \A k \in DOMAIN sent : sent[k].to # ev.c


\* the players of the connections dropped in this step
DroppedPlayers ==
  { connections[j].player : j \in { i \in Dropped : connections[i].mode = "PLAYING" } }

\* connection j is told (or an attempt is made to tell it) cmd with payload
SentTo(j, cmd, payload) ==
  \E k \in DOMAIN sent' : sent'[k].to = j /\ sent'[k].cmd = cmd /\ sent'[k].payload = payload

\* the connections other than c that are active and connected, and stay active
Others(c) ==
  { j \in DOMAIN connections \ {c} :
      connections[j].active /\ IsConnected(connections[j].mode) /\ connections'[j].active }

\* the answer to connection c is the last thing sent, and before it c is sent
\* nothing but the departure of a player whose connection the step dropped
AnsweredLast(c) ==
  \A k \in DOMAIN sent' :
    (sent'[k].to = c /\ k # Len(sent')) =>
      /\ sent'[k].cmd = "MODE"
      /\ \E q \in DroppedPlayers : sent'[k].payload[2] = ModeWord(FALSE, FALSE, q)

\* C21: on the server a PLAY from a connection that is not PLAYING, when a
\* player is free, gives it the lowest free player p (not the server's own,
\* not a connected one): the connection becomes PLAYING with player p, p joins
\* connected_players, read_ptr[p] = next_ptr(self_ptr) and read_frame_count[p]
\* = self_frame_count + 1, MODE(self_frame_count + 1, PLAYING|p) goes to every
\* other connected connection and MODE(self_frame_count + 1, PLAYING|YOU|p)
\* to the sender (a sender dropped in the step, because telling it of another
\* connection's loss failed, is left aside)
C21_PlayAssigns ==
  [][ (/\ is_server /\ ev'.m.cmd = "PLAY"
       /\ connections[ev'.c].mode # "PLAYING"
       /\ FreePlayer(Cur) < MAX_USERS
       /\ connections'[ev'.c].active) =>
        LET p == FreePlayer(Cur)
            c == ev'.c
            f == self_frame_count + 1
        IN
        /\ ~(self_mode = "PLAYING" /\ self_player = p) /\ p \notin connected_players
        /\ \A q \in 0 .. (p - 1) :
             (self_mode = "PLAYING" /\ self_player = q) \/ q \in connected_players
        /\ connections'[c].active
        /\ connections'[c].mode = "PLAYING" /\ connections'[c].player = p
        /\ p \in connected_players'
        /\ connected_players' \cup DroppedPlayers = connected_players \cup {p}
        /\ read_ptr'[p] = NEXT_PTR(self_ptr)
        /\ read_frame_count'[p] = f
        /\ \A j \in Others(c) : SentTo(j, "MODE", <<f, ModeWord(TRUE, FALSE, p)>>)
        /\ sent'[Len(sent')] = Msg(c, "MODE", <<f, ModeWord(TRUE, TRUE, p)>>)
        /\ AnsweredLast(c) ]_vars

\* a server past its first frame has made a spectator a player and told its
\* other peer
C21_Witness ==
  /\ is_server /\ ev.m.cmd = "PLAY" /\ self_frame_count > 0
  /\ connections[ev.c].active /\ connections[ev.c].mode = "PLAYING"
  /\ connections[ev.c].player \in connected_players
  /\ read_frame_count[connections[ev.c].player] = self_frame_count + 1
  /\ Len(sent) = 2
  /\ sent[1] = Msg(1 - ev.c, "MODE",
                   <<self_frame_count + 1, ModeWord(TRUE, FALSE, connections[ev.c].player)>>)
  /\ sent[2] = Msg(ev.c, "MODE",
                   <<self_frame_count + 1, ModeWord(TRUE, TRUE, connections[ev.c].player)>>)


\* what a SPECTATE on the server does apart from the answer to the sender: a
\* sender that was PLAYING with p becomes a spectator, p leaves
\* connected_players and the others are sent MODE(read_frame_count[p], p);
\* any other sender changes nothing and nothing is broadcast
SpectateLeaves(c) ==
  LET p == connections[c].player IN
  /\ connections'[c].active /\ connections'[c].player = p
  /\ connections'[c].mode = IF connections[c].mode = "PLAYING" THEN "SPECTATING"
                            ELSE connections[c].mode
  /\ IF connections[c].mode = "PLAYING"
     THEN /\ p \notin connected_players'
          /\ connected_players' \cup DroppedPlayers \cup {p} = connected_players
          /\ \A j \in Others(c) :
               SentTo(j, "MODE", <<read_frame_count[p], ModeWord(FALSE, FALSE, p)>>)
     ELSE /\ connected_players' = connected_players
          /\ Len(sent') = 1
  /\ AnsweredLast(c)

\* C22 (as claimed): a SPECTATE on the server takes a PLAYING sender out of
\* the game and tells the others, and the sender is in every case answered
\* with MODE(0, YOU|p) (a sender dropped in the step is left aside)
C22_AnswerFrameZero ==
  [][ (is_server /\ ev'.m.cmd = "SPECTATE" /\ connections'[ev'.c].active) =>
        /\ SpectateLeaves(ev'.c)
        /\ sent'[Len(sent')] =
             Msg(ev'.c, "MODE", <<0, ModeWord(FALSE, TRUE, connections[ev'.c].player)>>) ]_vars

\* C22 (amended): the sender is answered with MODE(read_frame_count[p], YOU|p)
\* if it was PLAYING and with MODE(0, YOU|p) if it was not (a sender dropped
\* in the step is left aside)
C22_AnswerEndFrame ==
  [][ (is_server /\ ev'.m.cmd = "SPECTATE" /\ connections'[ev'.c].active) =>
        /\ SpectateLeaves(ev'.c)
        /\ sent'[Len(sent')] =
             Msg(ev'.c, "MODE",
                 <<IF connections[ev'.c].mode = "PLAYING"
                   THEN read_frame_count[connections[ev'.c].player] ELSE 0,
                   ModeWord(FALSE, TRUE, connections[ev'.c].player)>>) ]_vars

\* a player has just become a spectator: its peer was told the frame its
\* input ends at, and so was the player itself
C22_Witness ==
  /\ is_server /\ ev.m.cmd = "SPECTATE"
  /\ connections[ev.c].active /\ connections[ev.c].mode = "SPECTATING"
  /\ connections[ev.c].player \notin connected_players
  /\ read_frame_count[connections[ev.c].player] > 0
  /\ Len(sent) = 2
  /\ sent[1] = Msg(1 - ev.c, "MODE",
                   <<read_frame_count[connections[ev.c].player],
                     ModeWord(FALSE, FALSE, connections[ev.c].player)>>)
  /\ sent[2] = Msg(ev.c, "MODE",
                   <<read_frame_count[connections[ev.c].player],
                     ModeWord(FALSE, TRUE, connections[ev.c].player)>>)


\* r is the session n after netplay_hangup of connection c on a server
HangupEffect(n, c, r) ==
  LET cn == n.connections[c]
      p == cn.player
      gone == { j \in DOMAIN n.connections :
                  n.connections[j].active /\ ~r.connections[j].active }
  IN
  IF ~cn.active THEN r = n
  ELSE IF cn.mode # "PLAYING"
  THEN r = [n EXCEPT !.connections[c].active = FALSE]
  ELSE
    /\ ~r.connections[c].active
    /\ p \notin r.connected_players
    /\ r.connected_players \subseteq n.connected_players
    /\ n.connected_players \ r.connected_players \subseteq
         { n.connections[j].player : j \in gone }
    /\ \A k \in DOMAIN r.sent : r.sent[k].cmd = "MODE" /\ r.sent[k].to # c
    /\ \A j \in DOMAIN n.connections \ {c} :
         (/\ n.connections[j].active /\ IsConnected(n.connections[j].mode)
          /\ r.connections[j].active)
           => \E k \in DOMAIN r.sent :
                r.sent[k] = Msg(j, "MODE", <<n.read_frame_count[p], ModeWord(FALSE, FALSE, p)>>)
    /\ \A j \in DOMAIN n.connections :
         [r.connections[j] EXCEPT !.active = TRUE] = [n.connections[j] EXCEPT !.active = TRUE]
    /\ [r EXCEPT !.connections = n.connections, !.sent = n.sent,
                 !.connected_players = n.connected_players] = n

\* C23: netplay_hangup on a server marks an active PLAYING connection with
\* player p inactive, takes p out of connected_players and sends
\* MODE(read_frame_count[p], p), PLAYING and YOU bits clear, to every other
\* active connected connection and never to the one hung up; for an active
\* connection that is not PLAYING connected_players stays and nothing is sent;
\* for an inactive connection nothing changes
C23_HangupOnServer ==
  is_server =>
    \A c \in DOMAIN connections, fail \in SUBSET DOMAIN connections :
      LET n == [Env(fail, TRUE) EXCEPT !.sent = <<>>]
      IN HangupEffect(n, c, netplay_hangup(n, c))

\* a server has hung up a playing peer that sent DISCONNECT, and has told its
\* other peer, which is still there, where that player's input ends
C23_Witness ==
  /\ is_server /\ ev.m.cmd = "DISCONNECT"
  /\ ~connections[ev.c].active /\ connections[ev.c].mode = "PLAYING"
  /\ connections[ev.c].player \notin connected_players
  /\ (1 - ev.c) \in DOMAIN connections /\ connections[1 - ev.c].active
  /\ sent = << Msg(1 - ev.c, "MODE",
                   <<read_frame_count[connections[ev.c].player],
                     ModeWord(FALSE, FALSE, connections[ev.c].player)>>) >>


\* e is a whole MODE from the server about a player that is not this client
ModeOfOther(e) ==
  /\ ~is_server /\ e.m.cmd = "MODE" /\ e.m.avail = "full" /\ e.m.cmd_size = 8
  /\ ModeWordPlayer(e.m.b) < MAX_USERS
  /\ ~BitSet(e.m.b, NETPLAY_CMD_MODE_BIT_YOU)

\* the MODE ev' of another player has been taken: the player joins, read from
\* the server's position on, or leaves; this client's mode and player and
\* every other player's reader stay
ModeOfOtherTaken ==
  LET p == ModeWordPlayer(ev'.m.b) IN
  /\ IF BitSet(ev'.m.b, NETPLAY_CMD_MODE_BIT_PLAYING)
     THEN /\ connected_players' = connected_players \cup {p}
          /\ read_ptr'[p] = server_ptr
          /\ read_frame_count'[p] = server_frame_count
     ELSE /\ connected_players' = connected_players \ {p}
          /\ read_ptr'[p] = read_ptr[p]
          /\ read_frame_count'[p] = read_frame_count[p]
  /\ self_mode' = self_mode /\ self_player' = self_player
  /\ \A q \in Players \ {p} :
       read_ptr'[q] = read_ptr[q] /\ read_frame_count'[q] = read_frame_count[q]

\* C24 (as claimed): on a client every MODE without the YOU bit adds the named
\* player, seeded at the server's position, or removes it, and leaves
\* self_mode, self_player and the other players' readers unchanged
C24_AnyFrame ==
  [][ ModeOfOther(ev') => ModeOfOtherTaken ]_vars

\* C24 (amended): so it is unless the MODE adds a player with a frame other
\* than server_frame_count: that MODE is answered with NAK, the connection is
\* dropped and no reader changes
C24_JoinAtServerFrame ==
  [][ ModeOfOther(ev') =>
        IF BitSet(ev'.m.b, NETPLAY_CMD_MODE_BIT_PLAYING) /\ ev'.m.a # server_frame_count
        THEN /\ sent' = << Msg(ev'.c, "NAK", <<>>) >>
             /\ ~connections'[ev'.c].active
             /\ UNCHANGED <<read_ptr, read_frame_count>>
        ELSE ModeOfOtherTaken ]_vars

\* a client past the server's first frame has been told that another player
\* joins, and expects it from the server's frame on
C24_Witness ==
  /\ ModeOfOther(ev) /\ BitSet(ev.m.b, NETPLAY_CMD_MODE_BIT_PLAYING)
  /\ connections[ev.c].active
  /\ server_frame_count > 0 /\ ev.m.a = server_frame_count
  /\ ModeWordPlayer(ev.m.b) \in connected_players
  /\ read_frame_count[ModeWordPlayer(ev.m.b)] = server_frame_count
  /\ read_ptr[ModeWordPlayer(ev.m.b)] = server_ptr


\* e is a whole MODE from the server that makes this client a player
ModeYouPlay(e) ==
  /\ ~is_server /\ e.m.cmd = "MODE" /\ e.m.avail = "full" /\ e.m.cmd_size = 8
  /\ ModeWordPlayer(e.m.b) < MAX_USERS
  /\ BitSet(e.m.b, NETPLAY_CMD_MODE_BIT_YOU)
  /\ BitSet(e.m.b, NETPLAY_CMD_MODE_BIT_PLAYING)

\* the slot k places round the ring from ptr
SlotAfter(ptr, k) == (ptr + k) % buffer_size

\* C25: on a client a MODE with YOU and PLAYING is accepted only if its frame
\* is server_frame_count and the client is not PLAYING; it then makes the
\* client PLAYING with the player named, and (a) for a frame not after
\* self_frame_count sends one INPUT for each frame from it up to
\* self_frame_count, in order and without a gap, with the self_state captured
\* for that frame, and marks have_real[player] in those slots; (b) for a later
\* frame zeroes self_state and sets have_local in every used slot from self_ptr
\* up to the frame, and sends no INPUT
C25_YouPlay ==
  [][ ModeYouPlay(ev') =>
        LET p == ModeWordPlayer(ev'.m.b)
            c == ev'.c
            frame == ev'.m.a
        IN
        IF frame # server_frame_count \/ self_mode = "PLAYING"
        THEN /\ sent' = << Msg(c, "NAK", <<>>) >>
             /\ ~connections'[c].active
             /\ self_mode' # "PLAYING"
             /\ buffer' = buffer
        ELSE connections'[c].active =>
          /\ self_mode' = "PLAYING" /\ self_player' = p
          /\ IF frame <= self_frame_count
             THEN /\ Len(sent') = self_frame_count - frame + 1
                  /\ \A k \in 0 .. (self_frame_count - frame) :
                       LET slot == SlotAfter(server_ptr, k) IN
                       /\ buffer[slot].used /\ buffer[slot].frame = frame + k
                       /\ sent'[k + 1] =
                            Msg(c, "INPUT", <<frame + k, InputWord(p, FALSE)>>
                                            \o buffer[slot].self_state)
                       /\ buffer'[slot].have_real[p]
                       /\ buffer'[slot].real_input_state[p] = buffer[slot].self_state
             ELSE /\ sent' = <<>>
                  /\ \A s \in Slots :
                       IF \E k \in 0 .. (buffer_size - 1) :
                            /\ s = SlotAfter(self_ptr, k)
                            /\ \A i \in 0 .. k :
                                 /\ buffer[SlotAfter(self_ptr, i)].used
                                 /\ buffer[SlotAfter(self_ptr, i)].frame < frame
                       THEN /\ buffer'[s].self_state = ZeroInput
                            /\ buffer'[s].have_local
                       ELSE buffer'[s] = buffer[s] ]_vars


\* a client two frames into the game has been made a player from an earlier
\* frame on, and has sent its input for that frame and the ones since
C25_Witness ==
  /\ ModeYouPlay(ev) /\ connections[ev.c].active
  /\ self_mode = "PLAYING" /\ self_player = ModeWordPlayer(ev.m.b)
  /\ ev.m.a < self_frame_count
  /\ Len(sent) = self_frame_count - ev.m.a + 1
  /\ sent[1].cmd = "INPUT" /\ sent[1].payload[1] = ev.m.a
  /\ sent[Len(sent)].cmd = "INPUT" /\ sent[Len(sent)].payload[1] = self_frame_count
  /\ buffer[self_ptr].have_real[self_player]
  /\ buffer[self_ptr].self_state # ZeroInput


\* e is a whole CRC of the right size
CrcArrives(e) == e.m.cmd = "CRC" /\ e.m.avail = "full" /\ e.m.cmd_size = 8

\* the slots of the ring that hold frame
Holding(frame) == { s \in Slots : buffer[s].used /\ buffer[s].frame = frame }

\* a REQUEST_SAVESTATE goes out in this step
Requests == \E k \in DOMAIN sent' : sent'[k].cmd = "REQUEST_SAVESTATE"

\* the first connection can be asked for a savestate
CanRequest ==
  /\ 0 \in DOMAIN connections
  /\ connections[0].active /\ IsConnected(connections[0].mode)

\* the CRC ev' for a frame no slot holds is dropped without a NAK and changes
\* nothing; for a frame not yet audited it is parked in the slot of that frame
\* and nothing is sent
CrcDroppedOrParked ==
  LET frame == ev'.m.a IN
  /\ connections'[ev'.c].active
  /\ \A k \in DOMAIN sent' : sent'[k].cmd = "REQUEST_SAVESTATE"
  /\ Holding(frame) = {} => (UNCHANGED SessionVars /\ sent' = <<>>)
  /\ (Holding(frame) # {} /\ frame > other_frame_count) =>
       /\ \E s \in Holding(frame) : buffer' = [buffer EXCEPT ![s].crc = ev'.m.b]
       /\ sent' = <<>>
       /\ savestate_request_outstanding' = savestate_request_outstanding

\* C26 (as claimed): a CRC for a frame no slot holds is dropped; for an
\* audited frame (frame <= other_frame_count) nothing is stored and
\* REQUEST_SAVESTATE is sent exactly when the CRC differs from the slot's own;
\* for a later frame the CRC is parked in the slot and nothing is sent
C26_RequestIffDiffers ==
  [][ CrcArrives(ev') =>
        /\ CrcDroppedOrParked
        /\ (Holding(ev'.m.a) # {} /\ ev'.m.a <= other_frame_count) =>
             /\ buffer' = buffer
             /\ Requests <=>
                  \E s \in Holding(ev'.m.a) : ev'.m.b # netplay_delta_frame_crc(Cur, s) ]_vars

\* C26 (amended): for an audited frame REQUEST_SAVESTATE is sent, to the
\* first connection, exactly when the CRC differs, no request is outstanding
\* and that connection is active and connected; the request is then
\* outstanding
C26_RequestOnce ==
  [][ CrcArrives(ev') =>
        /\ CrcDroppedOrParked
        /\ (Holding(ev'.m.a) # {} /\ ev'.m.a <= other_frame_count) =>
             LET differs == \E s \in Holding(ev'.m.a) :
                              ev'.m.b # netplay_delta_frame_crc(Cur, s)
             IN
             /\ buffer' = buffer
             /\ Requests <=> (differs /\ CanRequest /\ ~savestate_request_outstanding)
             /\ Requests => sent' = << Msg(0, "REQUEST_SAVESTATE", <<>>) >>
             /\ savestate_request_outstanding' =
                  (savestate_request_outstanding \/ (differs /\ CanRequest)) ]_vars

\* a CRC for an audited frame differed from the slot's own while a request
\* was outstanding: nothing was sent
C26_Witness ==
  /\ CrcArrives(ev) /\ connections[ev.c].active
  /\ ev.m.a <= other_frame_count
  /\ \E s \in Holding(ev.m.a) : ev.m.b # netplay_delta_frame_crc(Cur, s)
  /\ savestate_request_outstanding /\ sent = <<>>


\* the LOAD_SAVESTATE e is one the handler refuses: its sender is not PLAYING,
\* or its payload is too long for the scratch buffer, or its frame has arrived
\* and is not the one expected of the sender, or its inflated size has arrived
\* and is not the size of a state
LoadRefused(e) ==
  /\ e.m.cmd = "LOAD_SAVESTATE"
  /\ \/ connections[e.c].mode # "PLAYING"
     \/ e.m.cmd_size - 8 > zbuffer_size
     \/ /\ e.m.avail \in {"part1", "part2", "full"}
        /\ e.m.a # read_frame_count[connections[e.c].player]
     \/ /\ e.m.avail \in {"part2", "full"}
        /\ e.m.b # state_size

\* C27: a LOAD_SAVESTATE from a connection that is not PLAYING, or for a frame
\* other than read_frame_count[conn.player], or with an inflated size other
\* than state_size, or with more than zbuffer_size bytes of state, is answered
\* with NAK and dropped, and leaves the self, other and read pointers and
\* counters, force_rewind and every slot of the ring as they were
C27_LoadRejected ==
  [][ LoadRefused(ev') =>
        /\ sent' # <<>> /\ sent'[1] = Msg(ev'.c, "NAK", <<>>)
        /\ ~connections'[ev'.c].active
        /\ UNCHANGED << self_ptr, self_frame_count, other_ptr, other_frame_count,
                        read_ptr, read_frame_count, force_rewind, buffer >> ]_vars

\* a state of the wrong size has been refused to a playing peer that named the
\* right frame
C27_Witness ==
  /\ ev.m.cmd = "LOAD_SAVESTATE" /\ ev.m.avail = "full"
  /\ connections[ev.c].mode = "PLAYING"
  /\ ev.m.cmd_size - 8 <= zbuffer_size
  /\ ev.m.a = read_frame_count[connections[ev.c].player]
  /\ ev.m.b # state_size
  /\ sent # <<>> /\ sent[1] = Msg(ev.c, "NAK", <<>>)
  /\ ~connections[ev.c].active
  /\ \A s \in Slots : buffer[s].state # "loaded"


\* the LOAD_SAVESTATE e is whole and passes every test of the handler
LoadAccepted(e) ==
  /\ e.m.cmd = "LOAD_SAVESTATE" /\ e.m.avail = "full"
  /\ connections[e.c].mode = "PLAYING"
  /\ e.m.cmd_size - 8 <= zbuffer_size
  /\ e.m.a = read_frame_count[connections[e.c].player]
  /\ e.m.b = state_size

SimTargets(sim_ptr) ==
  { p \in Players : p \in connected_players /\ ~buffer[sim_ptr].have_real[p] }
\* the real input the prediction for player p starts from
SimSource(p) == buffer[PREV_PTR(read_ptr[p])].real_input_state[p]
\* the step wrote nothing but the predictions of the targets in slot sim_ptr
SimOnlyTargets(sim_ptr) ==
  /\ \A s \in Slots :
       /\ [buffer'[s] EXCEPT !.simulated_input_state = buffer[s].simulated_input_state]
            = buffer[s]
       /\ \A p \in Players :
            (s # sim_ptr \/ p \notin SimTargets(sim_ptr)) =>
              buffer'[s].simulated_input_state[p] = buffer[s].simulated_input_state[p]
  /\ UNCHANGED << is_server, self_mode, self_player, connected_players, connections,
                  self_ptr, self_frame_count, other_ptr, other_frame_count,
                  unread_ptr, unread_frame_count, server_ptr, server_frame_count,
                  read_ptr, read_frame_count, force_rewind, remote_paused,
                  flip, flip_frame, savestate_request_outstanding,
                  force_send_savestate >>
\* the first simulation of slot sim_ptr copied every word
SimFirstCopies(sim_ptr) ==
  \A p \in SimTargets(sim_ptr) :
    buffer'[sim_ptr].simulated_input_state[p] = SimSource(p)

\* C29 (as claimed): netplay_simulate_input writes only the predictions of
\* the connected players without real input in the simulated slot; the first
\* simulation copies all words of the real input; a resimulation takes the
\* direction bits UP|DOWN|LEFT|RIGHT of word 0 from the real input and keeps
\* the predicted button bits and the words after word 0
C29_ResimCopiesDirections ==
  [][ ev'.m.cmd \in {"SIMULATE", "RESIMULATE"} =>
        /\ SimOnlyTargets(ev'.c)
        /\ ev'.m.cmd = "SIMULATE" => SimFirstCopies(ev'.c)
        /\ ev'.m.cmd = "RESIMULATE" =>
             \A p \in SimTargets(ev'.c) :
               LET old == buffer[ev'.c].simulated_input_state[p]
                   new == buffer'[ev'.c].simulated_input_state[p]
               IN /\ BitAnd(new[1], SimKeep) = BitAnd(SimSource(p)[1], SimKeep)
                  /\ BitAndNot(new[1], SimKeep) = BitAndNot(old[1], SimKeep)
                  /\ \A w \in 2 .. WORDS_PER_INPUT : new[w] = old[w] ]_vars

\* C29 (amended): as claimed, but a resimulation keeps the predicted
\* direction bits UP|DOWN|LEFT|RIGHT of word 0 and takes the other bits of
\* word 0, the buttons, from the real input; the words after word 0 stay as
\* predicted
C29_ResimCopiesButtons ==
  [][ ev'.m.cmd \in {"SIMULATE", "RESIMULATE"} =>
        /\ SimOnlyTargets(ev'.c)
        /\ ev'.m.cmd = "SIMULATE" => SimFirstCopies(ev'.c)
        /\ ev'.m.cmd = "RESIMULATE" =>
             \A p \in SimTargets(ev'.c) :
               LET old == buffer[ev'.c].simulated_input_state[p]
                   new == buffer'[ev'.c].simulated_input_state[p]
               IN /\ BitAnd(new[1], SimKeep) = BitAnd(old[1], SimKeep)
                  /\ BitAndNot(new[1], SimKeep) = BitAndNot(SimSource(p)[1], SimKeep)
                  /\ \A w \in 2 .. WORDS_PER_INPUT : new[w] = old[w] ]_vars

\* a resimulation has left a connected player without real input in the slot
\* with a prediction that has a direction held which the real input it was
\* made from has not, the button of that real input, and analog words that
\* are not those of the real input
C29_Witness ==
  /\ ev.m.cmd = "RESIMULATE"
  /\ \E p \in connected_players :
       LET sim == buffer[ev.c].simulated_input_state[p]
           real == buffer[PREV_PTR(read_ptr[p])].real_input_state[p]
       IN /\ ~buffer[ev.c].have_real[p]
          /\ BitAnd(sim[1], SimKeep) # BitAnd(real[1], SimKeep)
          /\ BitAndNot(sim[1], SimKeep) = BitAndNot(real[1], SimKeep)
          /\ BitAndNot(sim[1], SimKeep) # 0
          /\ sim[2] # real[2]
\* the players whose real input of the current frame is due to connection c:
\* the connected ones with real input in the current slot, but for the one c
\* plays itself
CurInputRelayed(c) ==
  { p \in connected_players :
      /\ buffer[self_ptr].have_real[p]
      /\ ~(connections[c].mode = "PLAYING" /\ connections[c].player = p) }
\* INPUT of the current frame to connection c with player word `word`
CurInputMsg(c, word, state) ==
  Msg(c, "INPUT", <<self_frame_count, word>> \o state)

\* C30: a call of netplay_send_cur_input(conn) that returns true has sent to
\* conn, on a server, one INPUT(self_frame_count, p, real[p]) for each player
\* p of connected_players with real input at self_ptr other than the player
\* conn plays, no other, and then one last command: NOINPUT(self_frame_count)
\* if the server is not playing, INPUT(self_frame_count, self_player with the
\* server bit, self_state) if it is; on a client, only INPUT(self_frame_count,
\* self_player without the server bit, self_state), and only if it is playing
C30_SendsCurInput ==
  [][ (ev'.m.cmd = "SEND_CUR_INPUT" /\ ret' = 1) =>
        LET c == ev'.c
            dframe == buffer[self_ptr]
            own == CurInputMsg(c, InputWord(self_player, is_server), dframe.self_state)
            last == Len(sent')
        IN
        IF is_server
        THEN /\ last = Cardinality(CurInputRelayed(c)) + 1
             /\ \A p \in CurInputRelayed(c) :
                  \E k \in 1 .. last - 1 :
                    sent'[k] = CurInputMsg(c, InputWord(p, FALSE),
                                           dframe.real_input_state[p])
             /\ sent'[last] = IF self_mode # "PLAYING"
                              THEN Msg(c, "NOINPUT", <<self_frame_count>>)
                              ELSE own
        ELSE /\ ~own.payload[2].server
             /\ sent' = IF self_mode = "PLAYING" THEN <<own>> ELSE <<>> ]_vars

\* a server that is not playing has sent to a connection that plays, and has
\* real input in the current slot, the real input of the other player and
\* then NOINPUT
C30_Witness ==
  /\ ev.m.cmd = "SEND_CUR_INPUT" /\ ret = 1
  /\ is_server /\ self_mode # "PLAYING"
  /\ connections[ev.c].mode = "PLAYING"
  /\ buffer[self_ptr].have_real[connections[ev.c].player]
  /\ Len(sent) = 2
  /\ sent[1].cmd = "INPUT" /\ sent[1].payload[2].low # connections[ev.c].player
  /\ sent[2].cmd = "NOINPUT"

C32_PlayersAreConnections ==
  is_server =>
    LET playing == { i \in DOMAIN connections :
                       connections[i].active /\ connections[i].mode = "PLAYING" }
    IN /\ connected_players = { connections[i].player : i \in playing }
       /\ \A i, j \in playing : connections[i].player = connections[j].player => i = j
       /\ self_mode = "PLAYING" => \A i \in playing : connections[i].player # self_player

\* a player has left by hangup and its place has been given to another
\* connection, while the connection that left still says PLAYING with it
C32_Witness ==
  /\ is_server /\ ev.m.cmd = "PLAY"
  /\ \E i, j \in DOMAIN connections :
       /\ ~connections[i].active /\ connections[i].mode = "PLAYING"
       /\ connections[j].active /\ connections[j].mode = "PLAYING"
       /\ connections[i].player = connections[j].player
       /\ connected_players = {connections[j].player}

\* C33: in a blocking poll with no peer paused, the waits in a row since the
\* last complete command never come to more than MAX_RETRIES: the poll has
\* returned the fatal error by then, whatever sits incomplete in a receive
\* buffer
C33_FatalWithinMaxRetries ==
  (block /\ ~remote_paused /\ ~PeerPaused) => waits <= MAX_RETRIES

\* C35: a step sends at most one REQUEST_SAVESTATE, and only when none is
\* outstanding and the first connection is active and connected; the request
\* is then outstanding, and stays so until a whole LOAD_SAVESTATE is processed,
\* however many checksums differ in between
C35_OneOutstanding ==
  [][ /\ Requests =>
           /\ ~savestate_request_outstanding /\ CanRequest
           /\ savestate_request_outstanding'
           /\ Cardinality({ k \in DOMAIN sent' : sent'[k].cmd = "REQUEST_SAVESTATE" }) = 1
      /\ (savestate_request_outstanding /\ ~savestate_request_outstanding') =>
           (ev'.m.cmd = "LOAD_SAVESTATE" /\ ev'.m.avail = "full") ]_vars

\* after a state was loaded and a new request made, another checksum of an
\* audited frame differed: nothing was sent, the request is still outstanding
C35_Witness ==
  /\ CrcArrives(ev) /\ CanRequest
  /\ ev.m.a <= other_frame_count
  /\ \E s \in Holding(ev.m.a) : ev.m.b # netplay_delta_frame_crc(Cur, s)
  /\ \E s \in Slots : buffer[s].state = "loaded"
  /\ savestate_request_outstanding /\ sent = <<>> /\ ncmds = MaxCmds


\* C36: a LOAD_SAVESTATE is answered with NAK or the number of bytes it has
\* read into zbuffer, cmd_size - 8 in unsigned arithmetic, is at most
\* zbuffer_size; one whose cmd_size is below 8 is answered with NAK
C36_ReadFitsBuffer ==
  [][ ev'.m.cmd = "LOAD_SAVESTATE" =>
        \/ sent' # <<>> /\ sent'[1] = Msg(ev'.c, "NAK", <<>>)
        \/ LoadReadLen(ev'.m) <= zbuffer_size ]_vars


\* C37: at the end of a round of a blocking poll on a server that has an
\* active connection and no connected player, the poll returns, without a wait
C37_SpectatorsOnlyReturns ==
  [][ (AtTail /\ block /\ is_server /\ HasActive /\ connected_players = {}) =>
        (poll_i' = -1 /\ waits' = waits) ]_vars


\* C38: a MODE that netplay_get_cmd refuses with NAK on a client, read in
\* whole from a connected peer, returns with force_rewind, self_mode,
\* self_player, connected_players and the read pointers and counters of all
\* players as they were when the poll called it
C38_RejectedModeChangesNothing ==
  \A c \in DOMAIN connections :
    (InPoll(c) /\ ~is_server /\ connections[c].active /\ IsConnected(connections[c].mode)) =>
      \A m \in { mm \in ModeMsgs(Frames, WirePlayers) : mm.cmd_size = 8 } :
        LET r == netplay_get_cmd(Env({}, TRUE), c, m) IN
        ~r.ok =>
          /\ r.sent = << Msg(c, "NAK", <<>>) >>
          /\ r.force_rewind = force_rewind
          /\ r.self_mode = self_mode /\ r.self_player = self_player
          /\ r.connected_players = connected_players
          /\ r.read_ptr = read_ptr /\ r.read_frame_count = read_frame_count


\* the client dispatches the command at the head of what the server sent it
ClientDispatches == peer.s2c # <<>> /\ peer'.s2c = Tail(peer.s2c)

\* m is the MODE by which the server grants its peer a player
ModeGrant(m) ==
  /\ m.cmd = "MODE"
  /\ BitSet(m.b, NETPLAY_CMD_MODE_BIT_YOU) /\ BitSet(m.b, NETPLAY_CMD_MODE_BIT_PLAYING)

\* C34: the MODE by which the server grants PLAY names the frame after the
\* server's and is accepted by the client, whose server_frame_count is that
\* frame; and every INPUT the server then gets from the client is for the
\* frame it expects of the client's player and taken, or for an earlier frame
\* and dropped without a change: none is answered with NAK
C34_JoinHandoff ==
  [][ /\ (ev'.m.cmd = "PLAY" /\ connections'[ev'.c].active) =>
           \E k \in DOMAIN sent' :
             /\ ModeGrant(Wire(sent'[k]))
             /\ sent'[k].payload[1] = self_frame_count + 1
      /\ (ClientDispatches /\ ModeGrant(peer'.cmd)) =>
           /\ peer.n.server_frame_count = peer'.cmd.a
           /\ peer'.n.self_mode = "PLAYING"
           /\ peer'.n.self_player = connections[0].player
           /\ peer'.n.connections[0].active
      /\ ev'.m.cmd = "INPUT" =>
           LET player == connections[ev'.c].player
               frame == ev'.m.a
           IN
           /\ connections'[ev'.c].active
           /\ \A k \in DOMAIN sent' : sent'[k].cmd # "NAK"
           /\ \/ /\ frame = read_frame_count[player]
                 /\ read_frame_count'[player] = frame + 1
                 /\ buffer'[read_ptr[player]].have_real[player]
              \/ /\ frame < read_frame_count[player]
                 /\ UNCHANGED <<read_frame_count, read_ptr, buffer>> ]_vars

\* the client was granted its player for a frame it had already run, sent
\* the input it had captured for that frame, and the server, still a frame
\* behind, has taken it in order
C34_Witness ==
  /\ ev.m.cmd = "INPUT" /\ got # <<>>
  /\ ev.m.state = LocalInput /\ ev.m.a = self_frame_count + 1
  /\ connections[0].active /\ connections[0].mode = "PLAYING"
  /\ peer.attached /\ peer.n.self_mode = "PLAYING"
  /\ peer.n.self_player = connections[0].player
  /\ peer.n.self_frame_count >= ev.m.a
  /\ read_frame_count[connections[0].player] = ev.m.a + 1

====
